---- MODULE Spec2Model ----
(***************************************************************************)
(* TaskManager backend: the webhook ingress (WebhookHandler,               *)
(* WebhookProcessor, WebhookVerifier) and the realtime layer               *)
(* (SocketManager, SocketAuthentication, SocketEventHandlers).             *)
(*                                                                         *)
(* The specifications of this module:                                      *)
(*   SpecWebhook  - one HTTP request at a time through #handleWebhook,     *)
(*                  with handler registration in between;                  *)
(*   SpecVerifier - direct calls of the WebhookVerifier functions;         *)
(*   SpecSocket   - socket.io connections, the registry, joins, leaves     *)
(*                  and the server-side emit operations;                   *)
(*   SpecRoom     - project rooms under joins, leaves, task messages and   *)
(*                  changing membership;                                   *)
(*   SpecEntity   - the entity-changed messages with a failing database;   *)
(*   SpecMessage  - every inbound message kind on unusable data.           *)
(***************************************************************************)
EXTENDS Integers, Sequences, FiniteSets, TLC

VARIABLES
    \* ---- webhook ingress ----
    config,      \* WebhookHandler.#config plus the process.env entries it reads
    handlers,    \* WebhookProcessor.#handlers : eventType -> handler
    clock,       \* Math.floor(Date.now() / 1000) at verification time
    wreq,        \* the request being answered, NoReq when none
    wres,        \* the res.status(..).json(..) calls made for wreq, in order
    wcalls,      \* the handler invocations made for wreq, in order
    wverify,     \* the verifier calls made for wreq, in order
    regOp,       \* the call on the handler registry being made, NoCall when none
    \* ---- realtime layer ----
    serving,         \* FALSE once #gracefulShutdown has closed the socket server
    broken,          \* open channels whose transport no longer delivers (not yet noticed)
    transport,       \* io.engine.clients: socket ids whose engine.io connection is open
    status,          \* socket id -> "fresh" | "active" | "closed"
    sockUser,        \* socket id -> socket.data.userId (NoUser before authentication)
    connectedUsers,  \* SocketManager.#connectedUsers : userId -> set of socket ids
    socketToUser,    \* SocketManager.#socketToUser   : socketId -> userId
    rooms,           \* socket.io adapter: socket id -> set of rooms it has joined
    listening,       \* socket ids whose message and disconnect handlers are attached
    members,         \* ProjectMember collection: set of <<userId, projectId>>
    inflight,        \* the handlers suspended on their membership lookup
    lastOp,          \* the operation of the current event-loop turn, Idle between turns
    sent,            \* the packets delivered in this turn: set of [to, event, project, by]
    \* ---- direct calls of the WebhookVerifier ----
    vcall,           \* the call being made: [fn, payload, signature, secret]
    vret,            \* how it ended: "true", "false" or "raised"
    \* ---- task and note controllers ----
    creq,            \* the last CRUD request: operation, acting user, what storage did
    cres,            \* the response it was answered with: [status, message]
    cnotify          \* the emitToProject calls it made, in order

wvars == <<config, handlers, clock, wreq, wres, wcalls, wverify, regOp>>
svars == <<serving, broken, transport, status, sockUser, connectedUsers, socketToUser, rooms,
           listening, members, inflight, lastOp, sent>>
pvars == <<vcall, vret>>
cvars == <<creq, cres, cnotify>>
vars == <<wvars, svars, pvars, cvars>>

(***************************************************************************)
(*                          WEBHOOK INGRESS                                *)
(***************************************************************************)

Absent == "absent"          \* JavaScript undefined
\* The sources webhook.routes.js configures a secret slot for.
ConfiguredSources == {"github", "stripe", "generic"}
\* A name every object literal inherits from Object.prototype, and the
\* function found under it.
ProtoKeys == {"constructor"}
ProtoFn == "<function Object>"
\* req.params.source: any path segment.
Sources == ConfiguredSources \cup ProtoKeys
Secrets == {"k1", "k2"}
SecretOpt == Secrets \cup {Absent}

\* Date.now()/1000 of the modelled run.
BaseTime == 1000
\* part_001:95  if (timestampAge > 300)
StripeTolerance == 300

\* ---- raw bodies and JSON ------------------------------------------------

\* What JSON.stringify gives for an empty Buffer.
EmptyBufferJSON == "{\"type\":\"Buffer\",\"data\":[]}"

\* The texts a request body Buffer may hold.
BufferTexts ==
    { "", "not json", "null", "{}", "{\"action\":\"opened\"}",
      "{\"type\":\"payment\"}", "{\"event\":\"task.created\"}" }

\* req.body after express.raw({type: 'application/json'}): a Buffer when the
\* content type matched, {} or undefined (by express version) when it did not.
Bodies ==
    { [kind |-> "buffer", text |-> t] : t \in BufferTexts }
    \cup { [kind |-> "object", text |-> ""], [kind |-> "undefined", text |-> ""] }

\* const rawBody = req.body?.toString('utf8') || JSON.stringify(req.body);
RawBody(body) ==
    IF body.kind = "buffer"
      THEN IF body.text # "" THEN body.text ELSE EmptyBufferJSON
      ELSE IF body.kind = "object" THEN "[object Object]"
      ELSE "undefined"

ParseError == [kind |-> "error", action |-> Absent, type |-> Absent, event |-> Absent]
NullPayload == [kind |-> "null", action |-> Absent, type |-> Absent, event |-> Absent]
ObjPayload(a, t, e) == [kind |-> "object", action |-> a, type |-> t, event |-> e]

\* JSON.parse on the texts above: the parsed value, or ParseError for a
\* SyntaxError.
JSONParse(text) ==
    CASE text = "null" -> NullPayload
      [] text = "{}" -> ObjPayload(Absent, Absent, Absent)
      [] text = "{\"action\":\"opened\"}" -> ObjPayload("opened", Absent, Absent)
      [] text = "{\"type\":\"payment\"}" -> ObjPayload(Absent, "payment", Absent)
      [] text = "{\"event\":\"task.created\"}" -> ObjPayload(Absent, Absent, "task.created")
      [] text = EmptyBufferJSON -> ObjPayload(Absent, "Buffer", Absent)
      [] OTHER -> ParseError

\* Is the text the client sent a JSON document?  (The JSON grammar, not the
\* code: an empty text is not one.)
IsJSONText(text) ==
    text \in { "null", "{}", "{\"action\":\"opened\"}", "{\"type\":\"payment\"}",
               "{\"event\":\"task.created\"}" }

\* ---- signatures ---------------------------------------------------------

\* A signature header value.  fmt:
\*   "hex"       <hex digest of HMAC-SHA256(key, msg)>
\*   "prefixed"  sha256=<hex digest>
\*   "stripe"    t=<t>,v1=<hex digest of HMAC-SHA256(key, "<t>.<msg>")>
\*   "stripe_no_t"   v1=<hex digest> with no t element
\*   "stripe_no_v1"  t=<t> with no v1 element
\*   "garbage"   a text that is no digest
NoSig == [fmt |-> Absent, key |-> "-", msg |-> "-", t |-> 0]
\* A "signature" that is the function inherited under a prototype key.
FnSig == [fmt |-> "function", key |-> "-", msg |-> "-", t |-> 0]
HexSig(k, m) == [fmt |-> "hex", key |-> k, msg |-> m, t |-> 0]
PrefixedSig(k, m) == [fmt |-> "prefixed", key |-> k, msg |-> m, t |-> 0]
StripeSig(k, m, ts) == [fmt |-> "stripe", key |-> k, msg |-> m, t |-> ts]
GarbageSig == [fmt |-> "garbage", key |-> "-", msg |-> "-", t |-> 0]

\* crypto.createHmac('sha256', secret).update(payload).digest('hex'): HMAC is
\* taken as collision free, so a digest is identified by its key and message.
HmacHex(secret, payload) == [key |-> secret, msg |-> payload]

\* Signatures a caller may pass that are no well-formed header value.
EmptySig == [fmt |-> "empty", key |-> "-", msg |-> "-", t |-> 0]
StripeNoT(k, m) == [fmt |-> "stripe_no_t", key |-> k, msg |-> m, t |-> 0]
StripeNoV1(ts) == [fmt |-> "stripe_no_v1", key |-> "-", msg |-> "-", t |-> ts]
StripeBadV1(ts) == [fmt |-> "stripe_bad_v1", key |-> "-", msg |-> "-", t |-> ts]
\* t=<text that is no number>, v1 = digest over "<that text>.<msg>"
StripeNaN(k, m) == [fmt |-> "stripe_nan", key |-> k, msg |-> m, t |-> 0]

\* !x on a string argument
Falsy(x) == x = Absent \/ x = ""
FalsySig(signature) == signature.fmt = Absent \/ signature.fmt = "empty"

\* `${payload}` inside a template string
ToText(payload) == IF payload = Absent THEN "undefined" ELSE payload

\* The text compared by verifyHMAC: the signature with its "sha256=" prefix
\* stripped, as a digest when it is the hex of one, NotHex otherwise (a text
\* of another length).
NotHex == [key |-> "-", msg |-> "-"]
SignatureToCompare(signature) ==
    IF signature.fmt \in {"hex", "prefixed"}
      THEN [key |-> signature.key, msg |-> signature.msg]
      ELSE NotHex

\* crypto.timingSafeEqual(Buffer.from(a), Buffer.from(b)) where a is a digest:
\* throws a RangeError when the byte lengths differ.
timingSafeEqual(a, b) ==
    IF b = NotHex THEN "throw"
    ELSE IF a = b THEN "true" ELSE "false"

\* catch (error) { log; return false; }
Catch_Rethrow(r) == IF r = "throw" THEN "raised" ELSE r

Catch(r) == IF r = "throw" THEN "false" ELSE r

\* The try block of verifyHMAC (lines 27-40).
verifyHMACTry(payload, signature, secret) ==
    IF secret = ProtoFn THEN "throw"                \* createHmac on a non-key
    ELSE IF signature.fmt = "function" THEN "throw" \* startsWith is undefined
    ELSE timingSafeEqual(HmacHex(secret, payload), SignatureToCompare(signature))

\* How a call of verifyHMAC ends: "true", "false" or "raised".
verifyHMACResult(payload, signature, secret) ==
    IF Falsy(payload) \/ FalsySig(signature) \/ Falsy(secret)
      THEN "false"
      ELSE Catch(verifyHMACTry(payload, signature, secret))

verifyHMAC(payload, signature, secret) ==
    verifyHMACResult(payload, signature, secret) = "true"

verifyGitHubResult(payload, signature, secret) ==
    IF FalsySig(signature) THEN "false"
    ELSE verifyHMACResult(payload, signature, secret)

verifyGitHub(payload, signature, secret) ==
    verifyGitHubResult(payload, signature, secret) = "true"

\* The timestamp element of a Stripe signature as written, and the message
\* signed: `${timestamp}.${payload}`
TimestampText(signature) ==
    [numeric |-> signature.fmt # "stripe_nan", n |-> signature.t]
StripeSigned(ts, payload) == <<ts, payload>>

\* if (timestampAge > 300); a comparison with NaN is false.
TooOld_Inclusive(signature, now) ==
    signature.fmt # "stripe_nan" /\ now - signature.t >= StripeTolerance

TooOld(signature, now) ==
    signature.fmt # "stripe_nan" /\ now - signature.t > StripeTolerance

\* The try block of verifyStripe (lines 76-112).
verifyStripeTry(payload, signature, secret, now) ==
    IF signature.fmt = "function" THEN "throw"      \* split is undefined
    ELSE IF signature.fmt \notin {"stripe", "stripe_no_v1", "stripe_bad_v1",
                                  "stripe_nan"}
      THEN "false"                                  \* no t element
    ELSE IF TooOld(signature, now) THEN "false"
    ELSE IF secret = ProtoFn THEN "throw"           \* createHmac on a non-key
    ELSE IF signature.fmt \in {"stripe_no_v1", "stripe_bad_v1"}
      THEN "throw"                                  \* Buffer.from(undefined), lengths
    ELSE LET ts == TimestampText(signature) IN
         timingSafeEqual(
           HmacHex(secret, StripeSigned(ts, ToText(payload))),
           [key |-> signature.key, msg |-> StripeSigned(ts, signature.msg)])

verifyStripeResult(payload, signature, secret, now) ==
    IF FalsySig(signature) \/ Falsy(secret) THEN "false"
    ELSE Catch(verifyStripeTry(payload, signature, secret, now))

verifyStripe(payload, signature, secret, now) ==
    verifyStripeResult(payload, signature, secret, now) = "true"

verifyGenericResult(payload, signature, secret) ==
    verifyHMACResult(payload, signature, secret)

verifyGeneric(payload, signature, secret) ==
    verifyGenericResult(payload, signature, secret) = "true"

\* WebhookHandler.#verifySignature
verifySignature(source, payload, signature, secret, now) ==
    CASE source = "github" -> verifyGitHub(payload, signature, secret)
      [] source = "stripe" -> verifyStripe(payload, signature, secret, now)
      [] OTHER -> verifyGeneric(payload, signature, secret)

\* ---- headers ------------------------------------------------------------

NoHeaders ==
    [ x_hub_signature_256 |-> NoSig, x_hub_signature |-> NoSig,
      stripe_signature |-> NoSig, x_signature |-> NoSig, signature |-> NoSig,
      x_github_event |-> Absent, x_event_type |-> Absent,
      x_webhook_event |-> Absent ]

\* a || b on header values
OrSig(a, b) == IF a.fmt # Absent THEN a ELSE b
OrStr(a, b) == IF a # Absent THEN a ELSE b

\* WebhookHandler.#extractSignature
extractSignature(headers, source) ==
    LET github == OrSig(headers.x_hub_signature_256, headers.x_hub_signature)
        stripe == headers.stripe_signature
        generic == OrSig(headers.x_signature, headers.signature)
        own == CASE source = "github" -> github
                 [] source = "stripe" -> stripe
                 [] source = "generic" -> generic
                 [] source \in ProtoKeys -> FnSig
                 [] OTHER -> NoSig
    IN  OrSig(own, generic)

\* Result of #extractEventType: the event type, or Threw when reading a field
\* of a null payload raises a TypeError.
Threw == "<TypeError>"
Field(payload, v) == IF payload.kind = "null" THEN Threw ELSE v
OrElse(a, b) == IF a = Threw THEN Threw ELSE IF a # Absent THEN a ELSE b

extractEventType(headers, payload, source) ==
    IF source = "github"
      THEN OrElse(OrElse(headers.x_github_event,
                         Field(payload, payload.action)), "unknown")
    ELSE IF source = "stripe"
      THEN OrElse(Field(payload, payload.type), "unknown")
    ELSE OrElse(OrElse(OrElse(OrElse(headers.x_event_type,
                                     headers.x_webhook_event),
                              Field(payload, payload.event)),
                       Field(payload, payload.type)),
                "unknown")

\* WebhookHandler.#getSecret
\* this.#config.secrets?.[source]: an own entry, or what the object inherits.
SecretsLookup(secrets, source) ==
    IF source \in DOMAIN secrets THEN secrets[source]
    ELSE IF source \in ProtoKeys THEN ProtoFn
    ELSE Absent

getSecret(cfg, source) ==
    IF SecretsLookup(cfg.secrets, source) # Absent
      THEN SecretsLookup(cfg.secrets, source)
      ELSE OrStr(cfg.envSource[source], cfg.envGeneric)

\* ---- WebhookProcessor ---------------------------------------------------

\* Every value #extractEventType can yield on the modelled requests.
EventTypes ==
    {"push", "opened", "payment", "task.created", "deploy", "Buffer", "unknown"}
\* The event types handlers are registered for.
RegTypes == {"push", "task.created"}

\* Handler functions: hOk resolves, hThrow throws new Error(HandlerErrorMessage).
HandlerFns == {"hOk", "hThrow"}
NoHandler == "none"          \* Map.get() gave undefined
HandlerErrorMessage == "connect ECONNREFUSED db.internal:27017"

\* WebhookProcessor.process: the result object and the invocations made.
process_AnyRegistered(hs, eventType, payload, metadata) ==
    LET registered == { e \in DOMAIN hs : hs[e] # NoHandler } IN
    IF registered = {}
      THEN [success |-> FALSE, error |-> Absent, calls |-> <<>>]
      ELSE LET e == CHOOSE x \in registered : TRUE
               call == [fn |-> hs[e], eventType |-> e,
                        payload |-> payload, metadata |-> metadata]
           IN  IF hs[e] = "hThrow"
                 THEN [success |-> FALSE, error |-> HandlerErrorMessage,
                       calls |-> <<call>>]
                 ELSE [success |-> TRUE, error |-> Absent, calls |-> <<call>>]

process(hs, eventType, payload, metadata) ==
    LET handler == hs[eventType] IN
    IF handler = NoHandler
      THEN [success |-> FALSE, error |-> Absent, calls |-> <<>>]
      ELSE LET call == [fn |-> handler, eventType |-> eventType,
                        payload |-> payload, metadata |-> metadata]
           IN  IF handler = "hThrow"
                 THEN [success |-> FALSE, error |-> HandlerErrorMessage,
                       calls |-> <<call>>]
                 ELSE [success |-> TRUE, error |-> Absent, calls |-> <<call>>]

\* ---- WebhookHandler.#handleWebhook --------------------------------------

\* res.status(status).json({success, message, eventType})
Response(st, ok, msg, et) ==
    [status |-> st, success |-> ok, message |-> msg, eventType |-> et]

\* catch (error) of #handleWebhook for an ApiError(statusCode, message)
ApiErrorResponse_FallThrough(statusCode, message) ==
    [res |-> <<Response(statusCode, FALSE, message, Absent),
               Response(500, FALSE, "Internal server error", Absent)>>,
     calls |-> <<>>]

ApiErrorResponse(statusCode, message) ==
    [res |-> <<Response(statusCode, FALSE, message, Absent)>>, calls |-> <<>>]

\* Lines 103-134: classify, dispatch, answer.
dispatchWebhook(hs, req, payload, signature) ==
    LET eventType == extractEventType(req.headers, payload, req.source) IN
    IF eventType = Threw
      THEN \* a TypeError is not an ApiError: lines 149-152
           [res |-> <<Response(500, FALSE, "Internal server error", Absent)>>,
            calls |-> <<>>]
      ELSE
        LET metadata == [source |-> req.source, signature |-> signature,
                         ip |-> req.ip, timestamp |-> "iso"]
            result == process(hs, eventType, payload, metadata)
        IN  IF ~result.success
              THEN [res |-> <<Response(500, FALSE,
                                OrStr(result.error, "Failed to process webhook"),
                                Absent)>>,
                    calls |-> result.calls]
              ELSE [res |-> <<Response(200, TRUE,
                                "Webhook processed successfully", eventType)>>,
                    calls |-> result.calls]

\* The outcome of a run of #handleWebhook: what it answered, the handler
\* invocations and the verifier calls it made.
Outcome(out, verifierCalls) ==
    [res |-> out.res, calls |-> out.calls, verify |-> verifierCalls]

\* Lines 77-101: the signature stage.
handleWebhook_NoVerify(cfg, hs, now, req) ==
    LET rawBody == RawBody(req.body)
        payload == JSONParse(rawBody)
        signature == extractSignature(req.headers, req.source)
    IN  IF payload = ParseError
          THEN Outcome(ApiErrorResponse(400, "Invalid JSON payload"), <<>>)
          ELSE Outcome(dispatchWebhook(hs, req, payload, signature), <<>>)

handleWebhook(cfg, hs, now, req) ==
    LET rawBody == RawBody(req.body)
        payload == JSONParse(rawBody)
        signature == extractSignature(req.headers, req.source)
        secret == getSecret(cfg, req.source)
        verifierCall == <<[source |-> req.source, secret |-> secret]>>
    IN  IF payload = ParseError
          THEN Outcome(ApiErrorResponse(400, "Invalid JSON payload"), <<>>)
        ELSE IF ~cfg.requireSignature
          THEN Outcome(dispatchWebhook(hs, req, payload, signature), <<>>)
        ELSE IF secret = Absent
          THEN Outcome(ApiErrorResponse(401, "Webhook secret not configured"), <<>>)
        ELSE IF ~verifySignature(req.source, rawBody, signature, secret, now)
          THEN Outcome(ApiErrorResponse(401, "Invalid webhook signature"),
                       verifierCall)
        ELSE Outcome(dispatchWebhook(hs, req, payload, signature), verifierCall)

\* ---- requests -----------------------------------------------------------

\* A signature header a sender may attach to a body whose raw text is raw:
\* <<header name, value>>.  Digests are made with the configured key k1, with
\* another key, or over another body; Stripe ones at both sides of the
\* tolerance.
SigHeaders(raw) ==
    ( {"x_hub_signature_256", "x_signature"}
        \X { HexSig("k1", raw), PrefixedSig("k1", raw), HexSig("k2", raw),
             HexSig("k1", "another body") } )
    \cup ( {"x_hub_signature", "signature"} \X { PrefixedSig("k1", raw) } )
    \cup ( {"stripe_signature"}
        \X { StripeSig("k1", raw, BaseTime - StripeTolerance),
             StripeSig("k1", raw, BaseTime - StripeTolerance - 1),
             StripeSig("k2", raw, BaseTime), HexSig("k1", raw) } )

\* Event headers: none, or one of the three the code reads.
EventHeaderSets ==
    { NoHeaders,
      [NoHeaders EXCEPT !.x_github_event = "push"],
      [NoHeaders EXCEPT !.x_event_type = "task.created"],
      [NoHeaders EXCEPT !.x_webhook_event = "deploy"] }

\* Header sets with at most one signature header.
HeaderSets(raw) ==
    EventHeaderSets
    \cup { [h EXCEPT ![nv[1]] = nv[2]] :
             h \in EventHeaderSets, nv \in SigHeaders(raw) }

NoReq == [source |-> "-", body |-> [kind |-> "-", text |-> ""],
          headers |-> NoHeaders, ip |-> "-"]

\* The text of the body the client sent (empty for a body express.raw skipped).
SentText(req) == req.body.text

Requests ==
    UNION { { [source |-> s, body |-> b, headers |-> h, ip |-> "10.0.0.7"] :
                s \in Sources, h \in HeaderSets(RawBody(b)) } : b \in Bodies }

\* ---- configuration ------------------------------------------------------

\* new WebhookHandler({config}) as webhook.routes.js builds it, with the
\* environment entries #getSecret falls back to.
Configs ==
    { [requireSignature |-> r,
       secrets |-> [s \in ConfiguredSources |-> IF s \in sc[1] THEN "k1" ELSE Absent],
       envSource |-> [s \in Sources |-> IF s \in sc[2] THEN "k1" ELSE Absent],
       envGeneric |-> sc[3]] :
        r \in BOOLEAN,
        sc \in { <<{}, {}, Absent>>, <<ConfiguredSources, {}, Absent>>,
                 <<{"github"}, {}, "k2">>, <<{}, Sources, Absent>>,
                 <<{}, {"stripe"}, "k2">> } }

\* ---- actions ------------------------------------------------------------

\* ---- the handler registry ------------------------------------------------

\* A value that is no function.
NotAFunction == "notAFunction"

\* WebhookProcessor.registerHandler: the map afterwards, and whether it threw
\* 'Handler must be a function'.
registerHandler_KeepFirst(hs, eventType, handler) ==
    IF handler = NotAFunction THEN [hs |-> hs, threw |-> TRUE]
    ELSE IF hs[eventType] # NoHandler THEN [hs |-> hs, threw |-> FALSE]
    ELSE [hs |-> [hs EXCEPT ![eventType] = handler], threw |-> FALSE]

registerHandler(hs, eventType, handler) ==
    IF handler = NotAFunction
      THEN [hs |-> hs, threw |-> TRUE]
      ELSE [hs |-> [hs EXCEPT ![eventType] = handler], threw |-> FALSE]

\* WebhookProcessor.registerHandlers: registerHandler on each entry of the
\* object, in order, up to the first that throws.
RECURSIVE registerHandlers(_, _)
registerHandlers_Atomic(hs, entries) ==
    IF \E i \in 1..Len(entries) : entries[i][2] = NotAFunction
      THEN [hs |-> hs, threw |-> TRUE]
      ELSE [hs |-> [e \in DOMAIN hs |->
                     IF \E i \in 1..Len(entries) : entries[i][1] = e
                       THEN entries[CHOOSE i \in 1..Len(entries) :
                                      /\ entries[i][1] = e
                                      /\ \A j \in (i+1)..Len(entries) :
                                            entries[j][1] # e][2]
                       ELSE hs[e]],
            threw |-> FALSE]

registerHandlers(hs, entries) ==
    IF entries = <<>> THEN [hs |-> hs, threw |-> FALSE]
    ELSE LET first == registerHandler(hs, entries[1][1], entries[1][2]) IN
         IF first.threw THEN first
         ELSE registerHandlers(first.hs, Tail(entries))

\* WebhookProcessor.removeHandler
removeHandler(hs, eventType) == [hs EXCEPT ![eventType] = NoHandler]

\* WebhookProcessor.getRegisteredEventTypes
getRegisteredEventTypes(hs) == { e \in DOMAIN hs : hs[e] # NoHandler }

\* A call on the registry: its name, the entries it was given, whether it
\* threw and what it returned.
RegistryCall(op, entries, threw, returned) ==
    [op |-> op, entries |-> entries, threw |-> threw, returned |-> returned]
NoCall == RegistryCall("-", <<>>, FALSE, {})

\* The objects registerHandlers is given: up to two entries with distinct keys.
HandlerValues == HandlerFns \cup {NotAFunction}
HandlerObjects ==
    { <<>> }
    \cup { << <<e, h>> >> : e \in RegTypes, h \in HandlerValues }
    \cup { x \in { << <<e1, h1>>, <<e2, h2>> >> :
                       e1 \in RegTypes, e2 \in RegTypes,
                       h1 \in HandlerValues, h2 \in HandlerValues } :
             x[1][1] # x[2][1] }

InitWebhook ==
    /\ config \in Configs
    /\ handlers = [e \in EventTypes |-> NoHandler]
    /\ clock = BaseTime
    /\ wreq = NoReq
    /\ wres = <<>>
    /\ wcalls = <<>>
    /\ wverify = <<>>
    /\ regOp = NoCall

\* WebhookHandler.registerHandler(eventType, handler)
RegisterHandler(e, h) ==
    /\ wreq = NoReq /\ regOp = NoCall
    /\ LET out == registerHandler(handlers, e, h) IN
         /\ handlers' = out.hs
         /\ regOp' = RegistryCall("registerHandler", << <<e, h>> >>, out.threw, {})
    /\ UNCHANGED <<config, clock, wreq, wres, wcalls, wverify>>

\* WebhookHandler.registerHandlers(handlers)
RegisterHandlers(entries) ==
    /\ wreq = NoReq /\ regOp = NoCall
    /\ LET out == registerHandlers(handlers, entries) IN
         /\ handlers' = out.hs
         /\ regOp' = RegistryCall("registerHandlers", entries, out.threw, {})
    /\ UNCHANGED <<config, clock, wreq, wres, wcalls, wverify>>

\* WebhookProcessor.removeHandler(eventType)
RemoveHandler(e) ==
    /\ wreq = NoReq /\ regOp = NoCall
    /\ handlers' = removeHandler(handlers, e)
    /\ regOp' = RegistryCall("removeHandler", << <<e, NoHandler>> >>, FALSE, {})
    /\ UNCHANGED <<config, clock, wreq, wres, wcalls, wverify>>

\* WebhookProcessor.getRegisteredEventTypes()
GetRegisteredEventTypes ==
    /\ wreq = NoReq /\ regOp = NoCall
    /\ regOp' = RegistryCall("getRegisteredEventTypes", <<>>, FALSE,
                             getRegisteredEventTypes(handlers))
    /\ UNCHANGED <<config, handlers, clock, wreq, wres, wcalls, wverify>>

\* The call on the registry returns.
ReturnFromRegistry ==
    /\ regOp # NoCall
    /\ regOp' = NoCall
    /\ UNCHANGED <<config, handlers, clock, wreq, wres, wcalls, wverify>>

\* POST /:source - one run of #handleWebhook.
HandleWebhook(req) ==
    /\ wreq = NoReq /\ regOp = NoCall
    /\ LET out == handleWebhook(config, handlers, clock, req) IN
         /\ wreq' = req
         /\ wres' = out.res
         /\ wcalls' = out.calls
         /\ wverify' = out.verify
    /\ UNCHANGED <<config, handlers, clock, regOp>>

\* The exchange is over: req and res are released.
FinishWebhook ==
    /\ wreq # NoReq
    /\ wreq' = NoReq
    /\ wres' = <<>>
    /\ wcalls' = <<>>
    /\ wverify' = <<>>
    /\ UNCHANGED <<config, handlers, clock, regOp>>


(***************************************************************************)
(*                          REALTIME LAYER                                 *)
(***************************************************************************)

MaxSockets == 3
SocketNames == <<"s1", "s2", "s3", "s4", "s5">>
SocketIds == { SocketNames[i] : i \in 1..MaxSockets }
Users == {"u1", "u2"}        \* the User collection
Projects == {"p1"}           \* the Project collection
NoUser == "nobody"
NoSocket == "-"

\* ---- SocketAuthentication.authenticate ---------------------------------

\* Handshake tokens: none supplied, not a JWT, expired, verified but without
\* _id, verified for a user id the User collection lacks, or a verified
\* token of user u (written u).
BadTokens == {"none", "malformed", "expired", "noid", "ghost"}
Tokens == BadTokens \cup Users

\* The user the handshake resolves to, or the ApiError(401) it throws.
authenticate_AcceptGhost(tok) ==
    CASE tok = "none" -> [ok |-> FALSE, user |-> NoUser, error |-> "Authentication token required"]
      [] tok = "malformed" -> [ok |-> FALSE, user |-> NoUser, error |-> "Invalid token"]
      [] tok = "expired" -> [ok |-> FALSE, user |-> NoUser, error |-> "Token expired"]
      [] tok = "noid" -> [ok |-> FALSE, user |-> NoUser, error |-> "Invalid token payload"]
      [] tok = "ghost" -> [ok |-> TRUE, user |-> "ghost", error |-> ""]
      [] OTHER -> [ok |-> TRUE, user |-> tok, error |-> ""]

authenticate(tok) ==
    CASE tok = "none" -> [ok |-> FALSE, user |-> NoUser, error |-> "Authentication token required"]
      [] tok = "malformed" -> [ok |-> FALSE, user |-> NoUser, error |-> "Invalid token"]
      [] tok = "expired" -> [ok |-> FALSE, user |-> NoUser, error |-> "Token expired"]
      [] tok = "noid" -> [ok |-> FALSE, user |-> NoUser, error |-> "Invalid token payload"]
      [] tok = "ghost" -> [ok |-> FALSE, user |-> NoUser, error |-> "User not found"]
      [] OTHER -> [ok |-> TRUE, user |-> tok, error |-> ""]

\* ---- socket.io rooms and emits ------------------------------------------

UserRoom(u) == <<"user", u>>          \* `user:${userId}`
ProjectRoom_UserPrefix(p) == <<"user", p>>
ProjectRoom(p) == <<"project", p>>    \* `project:${projectId}`
OwnRoom_PerUser(s) == <<"user", sockUser[s]>>
OwnRoom(s) == <<"sid", s>>            \* the room socket.io names after socket.id

\* The sockets of the namespace: connected and not yet closed.
Connected == { s \in SocketIds : status[s] = "active" }

Packet(s, ev, p, by) ==
    [to |-> s, event |-> ev, project |-> p, by |-> by, message |-> "-"]
\* An 'error' packet {message}.
ErrorPacket(s, msg) ==
    [to |-> s, event |-> "error", project |-> "-", by |-> "-", message |-> msg]

\* Each socket of a fan-out is written to on its own: the write to a
\* transport that no longer delivers is lost, the others go out.
Deliver_AbortOnFailure(targets) ==
    IF targets \cap broken # {} THEN {} ELSE targets

Deliver(targets) == targets \ broken

\* io.to(toRooms).except(exceptRooms): the sockets a broadcast reaches.
BroadcastTargets(toRooms, exceptRooms) ==
    Deliver({ s \in Connected :
                rooms[s] \cap toRooms # {} /\ rooms[s] \cap exceptRooms = {} })

\* socket.emit(ev, ..): one packet, dropped when the socket is closed.
SocketEmit(s, ev, p, by) ==
    IF s \in Deliver(Connected) THEN { Packet(s, ev, p, by) } ELSE {}

\* socket.to(room).emit(ev, ..): the room except the sender.
SocketToEmit_Echo(s, room, ev, p, by) ==
    { Packet(t, ev, p, by) : t \in BroadcastTargets({room}, {}) }

SocketToEmit(s, room, ev, p, by) ==
    { Packet(t, ev, p, by) : t \in BroadcastTargets({room}, {OwnRoom(s)}) }

\* socket.join(room): the socket's room set with the room added.
socketJoin_Nowhere(rs, s, room) == rs

socketJoin(rs, s, room) == [rs EXCEPT ![s] = @ \cup {room}]

\* socket.leave(room): the socket's room set without the room.
socketLeave_Stay(rs, s, room) == rs

socketLeave(rs, s, room) == [rs EXCEPT ![s] = @ \ {room}]

\* ---- the registry maps --------------------------------------------------

MapSet(f, k, v) == [x \in DOMAIN f \cup {k} |-> IF x = k THEN v ELSE f[x]]
MapDelete(f, k) == [x \in DOMAIN f \ {k} |-> f[x]]
MapGet(f, k) == IF k \in DOMAIN f THEN f[k] ELSE {}

\* Lines 78-83 of #handleConnection.
trackConnection_Replace(cu, userId, socketId) ==
    MapSet(cu, userId, {socketId})

trackConnection(cu, userId, socketId) ==
    MapSet(cu, userId, MapGet(cu, userId) \cup {socketId})

\* Lines 185-192 of #handleDisconnection.
untrackConnection_KeepEntry(cu, userId, socketId) ==
    IF userId \in DOMAIN cu
      THEN MapSet(cu, userId, cu[userId] \ {socketId})
      ELSE cu

untrackConnection(cu, userId, socketId) ==
    IF userId \in DOMAIN cu
      THEN LET userSockets == cu[userId] \ {socketId} IN
           IF userSockets = {} THEN MapDelete(cu, userId)
           ELSE MapSet(cu, userId, userSockets)
      ELSE cu

\* SocketManager.emitToUser: the sockets it emits to and its return value.
emitToUserTargets_AllSockets(cu, userId) ==
    UNION { cu[u] : u \in DOMAIN cu }

emitToUserTargets(cu, userId) == MapGet(cu, userId)

emitToUserResult(cu, userId) ==
    userId \in DOMAIN cu /\ Cardinality(cu[userId]) > 0

\* SocketManager.emitToProject: the rooms it excepts.
emitToProjectExcept_None(excludeUserId) == {}

emitToProjectExcept(excludeUserId) ==
    IF excludeUserId # Absent THEN { UserRoom(excludeUserId) } ELSE {}

\* ---- operations ---------------------------------------------------------

\* lastOp: what ran in this turn.
Op(op, s, u, kind, p, ok, note) ==
    [op |-> op, socket |-> s, user |-> u, kind |-> kind, project |-> p,
     ok |-> ok, note |-> note]
Idle == Op("idle", NoSocket, NoUser, "-", "-", FALSE, "-")

\* The next socket id the transport hands out.
IsNextSocketId(s) ==
    /\ status[s] = "fresh"
    /\ \A i, j \in 1..MaxSockets :
          (SocketNames[j] = s /\ i < j) => status[SocketNames[i]] # "fresh"

\* #handleConnection statement by statement: what the registry holds, the
\* rooms of s, the packets emitted to s and whether the listeners of s are
\* attached, after lines 78-83, after line 93, after lines 95-100 and after
\* lines 103-117.  The function is synchronous: the last entry is what any
\* other handler finds.
ConnectionView(cu, stu, rm, out, on) ==
    [connectedUsers |-> cu, socketToUser |-> stu, rooms |-> rm,
     sent |-> out, listening |-> on]

handleConnection_ListenFirst(cu, stu, s, u) ==
    LET tracked == trackConnection(cu, u, s)
        mapped == MapSet(stu, s, u)
        ack == { Packet(s, "connected", "-", u) }
    IN  << ConnectionView(cu, stu, {OwnRoom(s)}, {}, TRUE),
           ConnectionView(tracked, mapped, {OwnRoom(s)}, {}, TRUE),
           ConnectionView(tracked, mapped, {OwnRoom(s), UserRoom(u)}, {}, TRUE),
           ConnectionView(tracked, mapped, {OwnRoom(s), UserRoom(u)}, ack, TRUE) >>

handleConnection(cu, stu, s, u) ==
    LET tracked == trackConnection(cu, u, s)
        mapped == MapSet(stu, s, u)
        ack == { Packet(s, "connected", "-", u) }
    IN  << ConnectionView(tracked, mapped, {OwnRoom(s)}, {}, FALSE),
           ConnectionView(tracked, mapped, {OwnRoom(s), UserRoom(u)}, {}, FALSE),
           ConnectionView(tracked, mapped, {OwnRoom(s), UserRoom(u)}, ack, FALSE),
           ConnectionView(tracked, mapped, {OwnRoom(s), UserRoom(u)}, ack, TRUE) >>

\* A client connects with token tok: the io.use middleware, then on
\* acceptance #handleConnection.
Handshake(s, tok) ==
    /\ lastOp = Idle
    /\ serving = TRUE
    /\ IsNextSocketId(s)
    /\ transport' = transport \cup {s}
    /\ LET auth == authenticate(tok) IN
       IF ~auth.ok
         THEN \* next(error): the connection is refused
              /\ status' = [status EXCEPT ![s] = "closed"]
              /\ lastOp' = Op("handshake", s, NoUser, "-", "-", FALSE, tok)
              /\ sent' = {}
              /\ UNCHANGED <<sockUser, connectedUsers, socketToUser, rooms, listening>>
         ELSE LET steps == handleConnection(connectedUsers, socketToUser,
                                            s, auth.user)
                  done == steps[Len(steps)]
              IN
              /\ status' = [status EXCEPT ![s] = "active"]
              /\ sockUser' = [sockUser EXCEPT ![s] = auth.user]
              /\ connectedUsers' = done.connectedUsers
              /\ socketToUser' = done.socketToUser
              /\ rooms' = [rooms EXCEPT ![s] = done.rooms]
              /\ sent' = done.sent
              /\ listening' = IF done.listening THEN listening \cup {s}
                                                ELSE listening
              /\ lastOp' = Op("handshake", s, auth.user, "-", "-", TRUE, tok)
    /\ UNCHANGED <<serving, broken, members, inflight>>

\* The transport of s closes: socket.io drops s from its rooms and from the
\* namespace, then the 'disconnect' listener runs #handleDisconnection.
Disconnect(s) ==
    /\ lastOp = Idle
    /\ status[s] = "active"
    /\ transport' = transport \ {s}
    /\ broken' = broken \ {s}
    /\ status' = [status EXCEPT ![s] = "closed"]
    /\ rooms' = [rooms EXCEPT ![s] = {}]
    /\ IF s \in listening
         THEN /\ connectedUsers' = untrackConnection(connectedUsers, sockUser[s], s)
              /\ socketToUser' = MapDelete(socketToUser, s)
         ELSE UNCHANGED <<connectedUsers, socketToUser>>
    /\ listening' = listening \ {s}
    /\ lastOp' = Op("disconnect", s, sockUser[s], "-", "-", TRUE, "-")
    /\ sent' = {}
    /\ UNCHANGED <<serving, sockUser, members, inflight>>

\* The engine.io connection of a refused handshake closes: the client gives
\* up, or the connect timeout of the server ends it.
TransportClose(s) ==
    /\ lastOp = Idle
    /\ s \in transport
    /\ status[s] = "closed"
    /\ transport' = transport \ {s}
    /\ lastOp' = Op("close", s, sockUser[s], "-", "-", TRUE, "-")
    /\ sent' = {}
    /\ UNCHANGED <<serving, broken, status, sockUser, connectedUsers, socketToUser, rooms,
                   listening, members, inflight>>

\* #handleDisconnection(socket, reason) run for a socket that is not in the
\* registry: one that never was, or one that already went through it.
HandleDisconnection_DropUser(s) ==
    /\ lastOp = Idle
    /\ status[s] # "active"
    /\ connectedUsers' = MapDelete(connectedUsers, sockUser[s])
    /\ socketToUser' = MapDelete(socketToUser, s)
    /\ lastOp' = Op("unregister", s, sockUser[s], "-", "-", TRUE, "-")
    /\ sent' = {}
    /\ UNCHANGED <<serving, broken, transport, status, sockUser, rooms, listening, members,
                   inflight>>

HandleDisconnection(s) ==
    /\ lastOp = Idle
    /\ status[s] # "active"
    /\ connectedUsers' = untrackConnection(connectedUsers, sockUser[s], s)
    /\ socketToUser' = MapDelete(socketToUser, s)
    /\ lastOp' = Op("unregister", s, sockUser[s], "-", "-", TRUE, "-")
    /\ sent' = {}
    /\ UNCHANGED <<serving, broken, transport, status, sockUser, rooms, listening, members,
                   inflight>>

\* The registry after the disconnect listeners of the sockets in ss have run.
RECURSIVE untrackAll(_, _)
untrackAll(cu, ss) ==
    IF ss = {} THEN cu
    ELSE LET s == CHOOSE x \in ss : TRUE
         IN  untrackAll(untrackConnection(cu, sockUser[s], s), ss \ {s})

\* #gracefulShutdown on SIGTERM or SIGINT: io.disconnectSockets(true) closes
\* every connected socket, whose disconnect listener runs
\* #handleDisconnection, and io.close() ends the server and the engine
\* connections still open.
gracefulShutdown_SkipListeners ==
    /\ lastOp = Idle
    /\ serving' = FALSE
    /\ status' = [s \in SocketIds |->
                     IF status[s] = "active" THEN "closed" ELSE status[s]]
    /\ rooms' = [s \in SocketIds |-> {}]
    /\ listening' = {}
    /\ transport' = {}
    /\ broken' = {}
    /\ sent' = {}
    /\ lastOp' = Op("shutdown", NoSocket, NoUser, "-", "-", TRUE,
                    IF Connected = {} THEN "no socket" ELSE "sockets closed")
    /\ UNCHANGED <<sockUser, connectedUsers, socketToUser, members, inflight>>

gracefulShutdown ==
    /\ lastOp = Idle
    /\ serving' = FALSE
    /\ status' = [s \in SocketIds |->
                     IF status[s] = "active" THEN "closed" ELSE status[s]]
    /\ rooms' = [s \in SocketIds |-> {}]
    /\ connectedUsers' = untrackAll(connectedUsers, Connected \cap listening)
    /\ socketToUser' = [s \in DOMAIN socketToUser \ (Connected \cap listening)
                           |-> socketToUser[s]]
    /\ listening' = {}
    /\ transport' = {}
    /\ broken' = {}
    /\ sent' = {}
    /\ lastOp' = Op("shutdown", NoSocket, NoUser, "-", "-", TRUE,
                    IF Connected = {} THEN "no socket" ELSE "sockets closed")
    /\ UNCHANGED <<sockUser, members, inflight>>

\* The query operations of SocketManager.
getConnectedUsersCount == Cardinality(DOMAIN connectedUsers)
getTotalConnections == Cardinality(transport)
isUserConnected(userId) == userId \in DOMAIN connectedUsers

\* The transport of an open channel stops delivering; the server has not
\* noticed yet (the ping timeout will end in Disconnect).
TransportBreaks(s) ==
    /\ lastOp = Idle
    /\ status[s] = "active"
    /\ s \notin broken
    /\ broken' = broken \cup {s}
    /\ UNCHANGED <<serving, transport, status, sockUser, connectedUsers,
                   socketToUser, rooms, listening, members, inflight, lastOp, sent>>

\* socketManager.emitToAll('srv', data)
EmitToAll ==
    /\ lastOp = Idle
    /\ sent' = { Packet(t, "srv", "-", "-") : t \in Deliver(Connected) }
    /\ lastOp' = Op("emitToAll", NoSocket, NoUser, "srv", "-", TRUE, "-")
    /\ UNCHANGED <<serving, broken, transport, status, sockUser, connectedUsers,
                   socketToUser, rooms, listening, members, inflight>>

\* socketManager.emitToUser(userId, 'srv', data)
EmitToUser(u) ==
    /\ lastOp = Idle
    /\ sent' = UNION { { Packet(t, "srv", "-", "-") :
                           t \in BroadcastTargets({OwnRoom(sid)}, {}) } :
                       sid \in emitToUserTargets(connectedUsers, u) }
    /\ lastOp' = Op("emitToUser", NoSocket, u, "srv", "-",
                    emitToUserResult(connectedUsers, u), "-")
    /\ UNCHANGED <<serving, broken, transport, status, sockUser, connectedUsers, socketToUser, rooms,
                   listening, members, inflight>>

\* socketManager.emitToProject(projectId, 'srv', data, excludeUserId)
EmitToProject(p, x) ==
    /\ lastOp = Idle
    /\ sent' = { Packet(t, "srv", p, "-") :
                   t \in BroadcastTargets({ProjectRoom(p)}, emitToProjectExcept(x)) }
    /\ lastOp' = Op("emitToProject", NoSocket, x, "srv", p, TRUE, "-")
    /\ UNCHANGED <<serving, broken, transport, status, sockUser, connectedUsers, socketToUser, rooms,
                   listening, members, inflight>>

\* The ProjectMember collection changes (the project's REST API).
AddMember(u, p) ==
    /\ lastOp = Idle
    /\ <<u, p>> \notin members
    /\ members' = members \cup {<<u, p>>}
    /\ UNCHANGED <<serving, broken, transport, status, sockUser, connectedUsers, socketToUser, rooms,
                   listening, inflight, lastOp, sent>>

RevokeMember_Evicts(u, p) ==
    /\ lastOp = Idle
    /\ <<u, p>> \in members
    /\ members' = members \ {<<u, p>>}
    /\ rooms' = [s \in SocketIds |->
                    IF sockUser[s] = u THEN rooms[s] \ {ProjectRoom(p)}
                                       ELSE rooms[s]]
    /\ UNCHANGED <<serving, broken, transport, status, sockUser, connectedUsers,
                   socketToUser, listening, inflight, lastOp, sent>>

RevokeMember(u, p) ==
    /\ lastOp = Idle
    /\ <<u, p>> \in members
    /\ members' = members \ {<<u, p>>}
    /\ UNCHANGED <<serving, broken, transport, status, sockUser, connectedUsers, socketToUser, rooms,
                   listening, inflight, lastOp, sent>>

\* ---- SocketEventHandlers -------------------------------------------------

EntityKinds ==
    {"task:created", "task:updated", "task:deleted", "project:updated",
     "note:created"}
TypingKinds == {"typing:start", "typing:stop"}
\* The kinds whose handler awaits ProjectMember.findOne.
LookupKinds_WithTyping == {"join:project"} \cup EntityKinds \cup TypingKinds

LookupKinds == {"join:project"} \cup EntityKinds
MessageKinds ==
    LookupKinds \cup TypingKinds \cup {"leave:project", "project:created", "ping"}

\* The data of an inbound message: undefined, or an object with or without a
\* projectId (one of a project, or a text that is no ObjectId) and with or
\* without the entity field the kind reads (task, taskId, project, note).
NotAnObjectId == "not-an-objectid"
NoData == [shape |-> "undefined", projectId |-> Absent, item |-> FALSE]
Data(pid, item) == [shape |-> "object", projectId |-> pid, item |-> item]
DataValues ==
    {NoData} \cup { Data(pid, i) : pid \in Projects \cup {Absent, NotAnObjectId},
                                   i \in BOOLEAN }

\* The message of the 'error' packet a handler's catch block emits, Absent
\* when the catch block only logs.
CatchMessage(kind) ==
    CASE kind = "join:project" -> "Failed to join project room"
      [] kind = "task:created" -> "Failed to broadcast task creation"
      [] OTHER -> Absent

\* The message emitted when a required field is missing, Absent when the
\* handler just returns.
MissingMessage(kind) ==
    CASE kind = "join:project" -> "Project ID is required"
      [] kind = "task:created" -> "Invalid task data"
      [] OTHER -> Absent

\* The message emitted when the membership lookup finds nothing.
DeniedMessage(kind) ==
    CASE kind = "join:project" -> "You do not have access to this project"
      [] kind = "task:created" -> "Access denied"
      [] OTHER -> Absent

ErrorEmit(s, msg) ==
    IF msg = Absent \/ s \notin Connected THEN {} ELSE { ErrorPacket(s, msg) }

\* Are the fields the handler of kind requires present in data?
HasRequired(kind, data) ==
    CASE kind = "join:project" -> data.projectId # Absent
      [] kind \in EntityKinds -> data.projectId # Absent /\ data.item
      [] kind = "project:created" -> data.item
      [] kind = "ping" -> TRUE
      [] OTHER -> data.projectId # Absent

MaxInFlight == 1

\* A handler suspended on `await ProjectMember.findOne(..)`, the n-th of those
\* suspended at once; found is "pending" until the database has answered,
\* then "yes", "no" or "error".
Suspended(n, s, kind, p, found) ==
    [slot |-> n, socket |-> s, kind |-> kind, project |-> p, found |-> found]

\* The slot the next suspended handler takes.
FreeSlot(fl) ==
    CHOOSE n \in 1..(MaxInFlight + 1) :
       /\ \A h \in fl : h.slot # n
       /\ \A k \in 1..(n - 1) : \E h \in fl : h.slot = k

\* An inbound message of s is dispatched to its handler, which runs to its
\* first await on the database or to its end.
\* handleLeaveProject after socket.leave: left:project to the sender and
\* user:left to the room, with no test of what the sender was in.
leaveProjectEmits_RoomMembersOnly(s, room, pid, u) ==
    IF room \in rooms[s]
      THEN SocketEmit(s, "left:project", pid, "-")
           \cup SocketToEmit(s, room, "user:left", pid, u)
      ELSE {}

leaveProjectEmits(s, room, pid, u) ==
    SocketEmit(s, "left:project", pid, "-")
    \cup SocketToEmit(s, room, "user:left", pid, u)

OnMessage_Terminates(s, kind, data) ==
    /\ lastOp = Idle
    /\ status[s] = "active"
    /\ s \in listening
    /\ status' = [status EXCEPT ![s] = "closed"]
    /\ lastOp' = Op("message", s, sockUser[s], kind, data.projectId, FALSE, "threw")
    /\ sent' = {}
    /\ UNCHANGED <<serving, broken, transport, sockUser, connectedUsers, socketToUser, rooms,
                   listening, members, inflight>>

OnMessage(s, kind, data) ==
    /\ lastOp = Idle
    /\ status[s] = "active"
    /\ s \in listening
    /\ LET u == sockUser[s]
           pid == data.projectId
           room == ProjectRoom(pid)
       IN
       IF kind = "ping"
         THEN /\ sent' = SocketEmit(s, "pong", "-", "-")
              /\ lastOp' = Op("message", s, u, kind, "-", TRUE, "done")
              /\ UNCHANGED <<rooms, inflight>>
       ELSE IF data.shape = "undefined"
         THEN \* destructuring undefined throws inside the try
              /\ sent' = ErrorEmit(s, CatchMessage(kind))
              /\ lastOp' = Op("message", s, u, kind, pid, FALSE, "threw")
              /\ UNCHANGED <<rooms, inflight>>
       ELSE IF ~HasRequired(kind, data)
         THEN /\ sent' = ErrorEmit(s, MissingMessage(kind))
              /\ lastOp' = Op("message", s, u, kind, pid, FALSE, "missing")
              /\ UNCHANGED <<rooms, inflight>>
       ELSE IF kind \in LookupKinds
         THEN IF pid = NotAnObjectId
                THEN \* new mongoose.Types.ObjectId(projectId) throws
                     /\ sent' = ErrorEmit(s, CatchMessage(kind))
                     /\ lastOp' = Op("message", s, u, kind, pid, FALSE, "threw")
                     /\ UNCHANGED <<rooms, inflight>>
                ELSE /\ Cardinality(inflight) < MaxInFlight
                     /\ inflight' = inflight \cup
                          {Suspended(FreeSlot(inflight), s, kind, pid, "pending")}
                     /\ sent' = {}
                     /\ lastOp' = Op("message", s, u, kind, pid, TRUE, "suspended")
                     /\ UNCHANGED rooms
       ELSE IF kind = "leave:project"
         THEN /\ rooms' = socketLeave(rooms, s, room)
              /\ sent' = leaveProjectEmits(s, room, pid, u)
              /\ lastOp' = Op("message", s, u, kind, pid, TRUE, "done")
              /\ UNCHANGED inflight
       ELSE IF kind = "project:created"
         THEN /\ sent' = SocketEmit(s, "project:created", "-", "-")
              /\ lastOp' = Op("message", s, u, kind, "-", TRUE, "done")
              /\ UNCHANGED <<rooms, inflight>>
       ELSE \* typing:start, typing:stop
              /\ sent' = SocketToEmit(s, room, kind, pid, u)
              /\ lastOp' = Op("message", s, u, kind, pid, TRUE, "done")
              /\ UNCHANGED <<rooms, inflight>>
    /\ UNCHANGED <<serving, broken, transport, status, sockUser, connectedUsers, socketToUser, listening,
                   members>>

\* The Room Membership Oracle: ProjectMember.findOne({project, user}).
findOne_Always(ms, u, p) == TRUE

findOne(ms, u, p) == <<u, p>> \in ms

\* The database answers the lookup of a suspended handler, or fails.
DbAnswer(h, fails) ==
    /\ lastOp = Idle
    /\ h \in inflight
    /\ h.found = "pending"
    /\ LET isMember == findOne(members, sockUser[h.socket], h.project)
           found == IF fails THEN "error" ELSE IF isMember THEN "yes" ELSE "no"
       IN  inflight' = (inflight \ {h}) \cup {[h EXCEPT !.found = found]}
    /\ UNCHANGED <<serving, broken, transport, status, sockUser, connectedUsers, socketToUser, rooms,
                   listening, members, lastOp, sent>>

\* if (!projectMember) { .. return; }
passesCheck_Always(found) == TRUE

passesCheck(found) == found = "yes"

\* The suspended handler h resumes with the lookup's outcome and runs to its
\* end.  socket.join on a socket that has closed meanwhile either does nothing
\* or still enters the room, by socket.io version: stale says which.
Resume(h, stale) ==
    /\ lastOp = Idle
    /\ h \in inflight
    /\ h.found # "pending"
    /\ inflight' = inflight \ {h}
    /\ LET s == h.socket
           u == sockUser[s]
           p == h.project
           room == ProjectRoom(p)
       IN
       IF h.found = "error"
         THEN /\ sent' = ErrorEmit(s, CatchMessage(h.kind))
              /\ lastOp' = Op("resume", s, u, h.kind, p, FALSE, "error")
              /\ UNCHANGED rooms
       ELSE IF ~passesCheck(h.found)
         THEN /\ sent' = ErrorEmit(s, DeniedMessage(h.kind))
              /\ lastOp' = Op("resume", s, u, h.kind, p, FALSE, "no")
              /\ UNCHANGED rooms
       ELSE IF h.kind = "join:project"
         THEN /\ rooms' = IF status[s] = "active" \/ stale
                            THEN socketJoin(rooms, s, room)
                            ELSE rooms
              /\ sent' = SocketEmit(s, "joined:project", p, "-")
                         \cup SocketToEmit(s, room, "user:joined", p, u)
              /\ lastOp' = Op("resume", s, u, h.kind, p, TRUE, "yes")
       ELSE   /\ sent' = SocketToEmit(s, room, h.kind, p, u)
              /\ lastOp' = Op("resume", s, u, h.kind, p, TRUE, "yes")
              /\ UNCHANGED rooms
    /\ UNCHANGED <<serving, broken, transport, status, sockUser, connectedUsers, socketToUser, listening,
                   members>>

\* The turn ends: its packets are on the wire.
EndTurn ==
    /\ lastOp # Idle
    /\ lastOp' = Idle
    /\ sent' = {}
    /\ UNCHANGED <<serving, broken, transport, status, sockUser, connectedUsers, socketToUser, rooms,
                   listening, members, inflight>>

(***************************************************************************)
(*                 DIRECT CALLS OF THE WEBHOOK VERIFIER                    *)
(***************************************************************************)

VerifierCall(fn, payload, signature, secret) ==
    [fn |-> fn, payload |-> payload, signature |-> signature, secret |-> secret]
NoVerifierCall == VerifierCall("-", Absent, NoSig, Absent)

\* Arguments: present, missing and empty ones, well-formed and malformed ones.
VPayloads == {Absent, "", "{}", "another body"}
VSecrets == {Absent, "", "k1", "k2", ProtoFn}
VTexts == {"{}", "", "undefined"}
VTimestamps ==
    { BaseTime - StripeTolerance - 1, BaseTime - StripeTolerance,
      BaseTime - StripeTolerance + 1, BaseTime }
VSignatures ==
    { NoSig, EmptySig, GarbageSig, FnSig }
    \cup { HexSig(k, m) : k \in Secrets, m \in VTexts }
    \cup { PrefixedSig(k, m) : k \in Secrets, m \in VTexts }
    \cup { StripeSig(k, m, ts) : k \in Secrets, m \in VTexts, ts \in VTimestamps }
    \cup { StripeNoT(k, m) : k \in Secrets, m \in VTexts }
    \cup { StripeNaN(k, m) : k \in Secrets, m \in VTexts }
    \cup { StripeNoV1(ts) : ts \in VTimestamps }
    \cup { StripeBadV1(ts) : ts \in VTimestamps }

InitVerifier ==
    /\ vcall = NoVerifierCall
    /\ vret = "-"

CallVerifyHMAC(payload, signature, secret) ==
    /\ vcall = NoVerifierCall
    /\ vcall' = VerifierCall("verifyHMAC", payload, signature, secret)
    /\ vret' = verifyHMACResult(payload, signature, secret)

CallVerifyGitHub(payload, signature, secret) ==
    /\ vcall = NoVerifierCall
    /\ vcall' = VerifierCall("verifyGitHub", payload, signature, secret)
    /\ vret' = verifyGitHubResult(payload, signature, secret)

CallVerifyStripe(payload, signature, secret) ==
    /\ vcall = NoVerifierCall
    /\ vcall' = VerifierCall("verifyStripe", payload, signature, secret)
    /\ vret' = verifyStripeResult(payload, signature, secret, clock)

CallVerifyGeneric(payload, signature, secret) ==
    /\ vcall = NoVerifierCall
    /\ vcall' = VerifierCall("verifyGeneric", payload, signature, secret)
    /\ vret' = verifyGenericResult(payload, signature, secret)

VerifierReturn ==
    /\ vcall # NoVerifierCall
    /\ vcall' = NoVerifierCall
    /\ vret' = "-"

(***************************************************************************)
(*                          SPECIFICATIONS                                 *)
(***************************************************************************)

InitSocket ==
    /\ serving = TRUE
    /\ broken = {}
    /\ transport = {}
    /\ status = [s \in SocketIds |-> "fresh"]
    /\ sockUser = [s \in SocketIds |-> NoUser]
    /\ connectedUsers = <<>>
    /\ socketToUser = <<>>
    /\ rooms = [s \in SocketIds |-> {}]
    /\ listening = {}
    /\ members \in SUBSET (Users \X Projects)
    /\ inflight = {}
    /\ lastOp = Idle
    /\ sent = {}

\* The realtime layer with no project member, the state SpecWebhook keeps it in.
QuietSocket ==
    InitSocket /\ members = {}

\* The webhook ingress of a deployment that requires signatures and has no
\* secret, the state SpecSocket keeps it in.
QuietWebhook ==
    /\ InitWebhook
    /\ config.requireSignature
    /\ \A s \in ConfiguredSources : getSecret(config, s) = Absent

(***************************************************************************)
(*                   THE TASK AND NOTE CONTROLLERS                         *)
(***************************************************************************)

CreateOps == {"createTask", "createNote"}
UpdateOps == {"updateTask", "updateNote"}
DeleteOps == {"deleteTask", "deleteNote"}
CrudOps == CreateOps \cup UpdateOps \cup DeleteOps

\* The event a controller announces.
CrudEvent(op) ==
    CASE op = "createTask" -> "task:created"
      [] op = "updateTask" -> "task:updated"
      [] op = "deleteTask" -> "task:deleted"
      [] op = "createNote" -> "note:created"
      [] op = "updateNote" -> "note:updated"
      [] OTHER -> "note:deleted"

\* What the ApiError(404, ..) of a controller says.
NotFoundMessage(op) ==
    CASE op \in CreateOps -> "Project not found"
      [] op \in {"updateTask", "deleteTask"} -> "Task not found"
      [] OTHER -> "Note not found"

SuccessStatus(op) == IF op \in CreateOps THEN 201 ELSE 200
SuccessMessage(op) ==
    CASE op = "createTask" -> "Task created successfully"
      [] op = "updateTask" -> "Task updated successfully"
      [] op = "deleteTask" -> "Task deleted successfully"
      [] op = "createNote" -> "Note created successfully"
      [] op = "updateNote" -> "Note updated successfully"
      [] OTHER -> "Note deleted successfully"

\* A CRUD request with what its environment does: found is the outcome of the
\* first storage call (findById, or findByIdAndDelete in the delete
\* controllers), stored that of the create or update that follows, hasProject
\* whether the stored document carries a project, mgr whether
\* req.app.locals.socketManager is absent, present, or throws in emitToProject.
CrudRequestOf(op, u, p, found, stored, hasProject, mgr) ==
    [op |-> op, user |-> u, project |-> p, found |-> found, stored |-> stored,
     hasProject |-> hasProject, mgr |-> mgr]
NoCrud == CrudRequestOf("-", NoUser, "-", "-", "-", FALSE, "-")

CrudResponse(code, message) == [status |-> code, message |-> message]
NoCrudResponse == CrudResponse(0, "-")
NotifyCall(p, event, excludeUserId) ==
    [project |-> p, event |-> event, exclude |-> excludeUserId]

\* Does the controller reach socketManager.emitToProject(..)?  The task
\* controllers other than createTask, and deleteNote, test the document's
\* project first; updateNote reads existingNote.project inside the try.
ReachesEmit(r) ==
    /\ r.mgr # "absent"
    /\ CASE r.op \in CreateOps -> TRUE
         [] r.op = "updateTask" -> r.stored = "doc" /\ r.hasProject
         [] OTHER -> r.hasProject

\* try { .. socketManager.emitToProject(..) } catch (_) {}
bestEffort_Rethrow(r) ==
    IF ReachesEmit(r) /\ r.mgr = "throws" THEN "raised" ELSE "done"

bestEffort(r) == "done"

\* The storage part of a controller: "404", "error" (a storage call threw and
\* asyncHandler hands the error on) or "ok".
Storage(r) ==
    IF r.found = "error" THEN "error"
    ELSE IF r.found = "null" THEN "404"
    ELSE IF r.op \notin DeleteOps /\ r.stored = "error" THEN "error"
    ELSE "ok"

StorageErrorResponse == CrudResponse(500, "Internal Server Error")

\* A controller from request to response: the response and the
\* emitToProject calls made on the way.
crudController_NotifyFirst(r) ==
    [ res |-> CASE Storage(r) = "404" -> CrudResponse(404, NotFoundMessage(r.op))
                [] Storage(r) = "error" -> StorageErrorResponse
                [] OTHER -> CrudResponse(SuccessStatus(r.op), SuccessMessage(r.op)),
      calls |-> IF r.mgr # "absent"
                  THEN << NotifyCall(r.project, CrudEvent(r.op), r.user) >>
                  ELSE << >> ]

crudController(r) ==
    CASE Storage(r) = "404" ->
           [res |-> CrudResponse(404, NotFoundMessage(r.op)), calls |-> << >>]
      [] Storage(r) = "error" ->
           [res |-> StorageErrorResponse, calls |-> << >>]
      [] OTHER ->
           [res |-> IF bestEffort(r) = "raised"
                      THEN StorageErrorResponse
                      ELSE CrudResponse(SuccessStatus(r.op), SuccessMessage(r.op)),
            calls |-> IF ReachesEmit(r)
                        THEN << NotifyCall(r.project, CrudEvent(r.op), r.user) >>
                        ELSE << >>]

\* The packets the calls put on the wire: none when emitToProject throws.
Delivered(r, calls) ==
    IF r.mgr # "present" THEN {}
    ELSE UNION { { Packet(t, calls[i].event, calls[i].project, "-") :
                     t \in BroadcastTargets({ProjectRoom(calls[i].project)},
                                            emitToProjectExcept(calls[i].exclude)) } :
                 i \in DOMAIN calls }

StorageOutcomes == {"doc", "null", "error"}
ManagerModes == {"absent", "present", "throws"}

InitCrud ==
    /\ creq = NoCrud
    /\ cres = NoCrudResponse
    /\ cnotify = << >>

\* The turn of a CRUD request ends: the response is out, the request is over.
CrudTurnEnds ==
    /\ EndTurn
    /\ creq' = NoCrud
    /\ cres' = NoCrudResponse
    /\ cnotify' = << >>

\* One CRUD request of an authenticated user, answered within its turn.
CrudRequest(r) ==
    /\ lastOp = Idle
    /\ LET out == crudController(r) IN
       /\ creq' = r
       /\ cres' = out.res
       /\ cnotify' = out.calls
       /\ sent' = Delivered(r, out.calls)
       /\ lastOp' = Op("crud", NoSocket, r.user, CrudEvent(r.op), r.project,
                       out.res.status < 400, r.op)
    /\ UNCHANGED <<serving, broken, transport, status, sockUser, connectedUsers, socketToUser,
                   rooms, listening, members, inflight>>

InitW == InitWebhook /\ QuietSocket /\ InitVerifier /\ InitCrud
InitS == QuietWebhook /\ InitSocket /\ InitVerifier /\ InitCrud
InitV == QuietWebhook /\ QuietSocket /\ InitVerifier /\ InitCrud

NextWebhook ==
    \/ \E e \in RegTypes, h \in HandlerValues : RegisterHandler(e, h)
    \/ \E entries \in HandlerObjects : RegisterHandlers(entries)
    \/ \E e \in RegTypes : RemoveHandler(e)
    \/ GetRegisteredEventTypes
    \/ ReturnFromRegistry
    \/ \E req \in Requests : HandleWebhook(req)
    \/ FinishWebhook

SpecWebhook == InitW /\ [][NextWebhook /\ UNCHANGED <<svars, pvars, cvars>>]_vars


\* The connection registry and the fan-out methods: handshakes with every
\* kind of token, disconnects, joining and leaving project rooms.
NextSocket ==
    \/ \E s \in SocketIds, tok \in Tokens : Handshake(s, tok)
    \/ \E s \in SocketIds : Disconnect(s)
    \/ \E s \in SocketIds, kind \in {"join:project", "leave:project"},
          p \in Projects : OnMessage(s, kind, Data(p, TRUE))
    \/ \E h \in inflight : DbAnswer(h, FALSE)
    \/ \E h \in inflight : Resume(h, FALSE)
    \/ \E u \in Users \cup {"ghost"} : EmitToUser(u)
    \/ \E p \in Projects, x \in Users \cup {Absent} : EmitToProject(p, x)
    \/ \E u \in Users, p \in Projects : AddMember(u, p)
    \/ \E u \in Users, p \in Projects : RevokeMember(u, p)
    \/ EndTurn

SpecSocket == InitS /\ [][NextSocket /\ UNCHANGED <<wvars, pvars, cvars>>]_vars

\* The sockets that connect in the specifications of message traffic.
MaxSenders == 2
Senders == { SocketNames[i] : i \in 1..MaxSenders }

\* The kinds SpecRoom sends, with well-formed data.
CoreKinds == {"join:project", "leave:project", "task:created"}

\* Project rooms under message traffic and changing membership.
NextRoom ==
    \/ \E s \in Senders, tok \in Users : Handshake(s, tok)
    \/ \E s \in Senders : Disconnect(s)
    \/ \E s \in Senders, kind \in CoreKinds, p \in Projects :
          OnMessage(s, kind, Data(p, TRUE))
    \/ \E h \in inflight : DbAnswer(h, FALSE)
    \/ \E h \in inflight : Resume(h, FALSE)
    \/ \E p \in Projects, x \in Users \cup {Absent} : EmitToProject(p, x)
    \/ \E u \in Users, p \in Projects : AddMember(u, p)
    \/ \E u \in Users, p \in Projects : RevokeMember(u, p)
    \/ EndTurn

SpecRoom == InitS /\ [][NextRoom /\ UNCHANGED <<wvars, pvars, cvars>>]_vars

\* The entity-changed messages, with a database that can fail.
NextEntity ==
    \/ \E s \in Senders, tok \in Users : Handshake(s, tok)
    \/ \E s \in Senders, kind \in {"join:project"} \cup EntityKinds, p \in Projects :
          OnMessage(s, kind, Data(p, TRUE))
    \/ \E h \in inflight, fails \in BOOLEAN : DbAnswer(h, fails)
    \/ \E h \in inflight : Resume(h, FALSE)
    \/ \E u \in Users, p \in Projects : AddMember(u, p)
    \/ \E u \in Users, p \in Projects : RevokeMember(u, p)
    \/ EndTurn

SpecEntity == InitS /\ [][NextEntity /\ UNCHANGED <<wvars, pvars, cvars>>]_vars

\* Data a handler cannot use: none at all, no projectId, no entity field, a
\* projectId that is no ObjectId.
BadData ==
    { NoData, Data(NotAnObjectId, TRUE) }
    \cup { Data(Absent, TRUE) }
    \cup { Data(p, FALSE) : p \in Projects }

\* Every message kind with data its handler cannot use, and joins with good
\* data, over a database that can fail.
NextMessage ==
    \/ \E s \in Senders, tok \in Users : Handshake(s, tok)
    \/ \E s \in Senders : Disconnect(s)
    \/ \E s \in Senders, kind \in MessageKinds, data \in BadData :
          OnMessage(s, kind, data)
    \/ \E s \in Senders, p \in Projects :
          OnMessage(s, "join:project", Data(p, TRUE))
    \/ \E h \in inflight, fails \in BOOLEAN : DbAnswer(h, fails)
    \/ \E h \in inflight : Resume(h, FALSE)
    \/ EndTurn

SpecMessage == InitS /\ [][NextMessage /\ UNCHANGED <<wvars, pvars, cvars>>]_vars

\* The registry under connects and disconnects alone.
NextRegistry ==
    \/ \E s \in SocketIds, tok \in Tokens : Handshake(s, tok)
    \/ \E s \in SocketIds : Disconnect(s)
    \/ \E s \in SocketIds : TransportClose(s)
    \/ \E s \in SocketIds : HandleDisconnection(s)
    \/ EndTurn

SpecRegistry == InitS /\ [][NextRegistry /\ UNCHANGED <<wvars, pvars, cvars>>]_vars

\* Joins racing with disconnects; what socket.join does on a closed socket is
\* left open, the handler does not test socket.connected after its await.
NextClose ==
    \/ \E s \in Senders, tok \in Users : Handshake(s, tok)
    \/ \E s \in Senders : Disconnect(s)
    \/ \E s \in Senders, p \in Projects :
          OnMessage(s, "join:project", Data(p, TRUE))
    \/ \E h \in inflight : DbAnswer(h, FALSE)
    \/ \E h \in inflight, stale \in BOOLEAN : Resume(h, stale)
    \/ EndTurn

SpecClose == InitS /\ [][NextClose /\ UNCHANGED <<wvars, pvars, cvars>>]_vars

\* The task and note controllers next to channels that join project rooms.
\* create(..) returns the document or throws; the delete controllers make
\* no second storage call.
StoredOutcomes(op) ==
    CASE op \in CreateOps -> {"doc", "error"}
      [] op \in UpdateOps -> StorageOutcomes
      [] OTHER -> {"-"}

CrudRequests ==
    UNION { { CrudRequestOf(op, u, p, found, stored, hasProject, mgr) :
                u \in Users, p \in Projects, found \in StorageOutcomes,
                stored \in StoredOutcomes(op), hasProject \in BOOLEAN,
                mgr \in ManagerModes } : op \in CrudOps }

NextCrud ==
    \/ /\ \/ \E s \in Senders, tok \in Users : Handshake(s, tok)
          \/ \E s \in Senders, p \in Projects :
                OnMessage(s, "join:project", Data(p, TRUE))
          \/ \E h \in inflight : DbAnswer(h, FALSE)
          \/ \E h \in inflight : Resume(h, FALSE)
       /\ UNCHANGED cvars
    \/ \E r \in CrudRequests : CrudRequest(r)
    \/ CrudTurnEnds

SpecCrud == InitS /\ [][NextCrud /\ UNCHANGED <<wvars, pvars>>]_vars

\* The server-side fan-out operations over channels whose transport may fail.
NextFanOut ==
    \/ \E s \in Senders, tok \in Users : Handshake(s, tok)
    \/ \E s \in Senders : TransportBreaks(s)
    \/ \E s \in Senders : Disconnect(s)
    \/ \E s \in Senders, p \in Projects :
          OnMessage(s, "join:project", Data(p, TRUE))
    \/ \E h \in inflight : DbAnswer(h, FALSE)
    \/ \E h \in inflight : Resume(h, FALSE)
    \/ \E u \in Users : EmitToUser(u)
    \/ \E p \in Projects, x \in Users \cup {Absent} : EmitToProject(p, x)
    \/ EmitToAll
    \/ EndTurn

SpecFanOut == InitS /\ [][NextFanOut /\ UNCHANGED <<wvars, pvars, cvars>>]_vars

\* Connections, joins and disconnects until the server is shut down.
NextShutdown ==
    \/ \E s \in Senders, tok \in Tokens : Handshake(s, tok)
    \/ \E s \in Senders : Disconnect(s)
    \/ \E s \in Senders, p \in Projects :
          OnMessage(s, "join:project", Data(p, TRUE))
    \/ \E h \in inflight : DbAnswer(h, FALSE)
    \/ \E h \in inflight : Resume(h, FALSE)
    \/ gracefulShutdown
    \/ EndTurn

SpecShutdown == InitS /\ [][NextShutdown /\ UNCHANGED <<wvars, pvars, cvars>>]_vars

\* The router module as deployed: webhook.routes.js constructs the handler,
\* registers its five handlers at import and registers nothing afterwards.
RouteEventTypes ==
    {"github.push", "github.pull_request", "payment_intent.succeeded",
     "customer.subscription.deleted", "task.created"}
RouteHandlers ==
    [e \in EventTypes \cup RouteEventTypes |->
        IF e \in RouteEventTypes THEN "hOk" ELSE NoHandler]

InitRoutes ==
    /\ config \in Configs
    /\ handlers = RouteHandlers
    /\ clock = BaseTime
    /\ wreq = NoReq
    /\ wres = <<>>
    /\ wcalls = <<>>
    /\ wverify = <<>>
    /\ regOp = NoCall

NextRoutes ==
    \/ \E req \in Requests : HandleWebhook(req)
    \/ FinishWebhook

InitR == InitRoutes /\ QuietSocket /\ InitVerifier /\ InitCrud

SpecRoutes == InitR /\ [][NextRoutes /\ UNCHANGED <<svars, pvars, cvars>>]_vars


\* The message kinds, the entity-changed handlers represented by the one for
\* task:created, with the projectId of a project or, as a client may send
\* it, the id of a user; every user is a member of every project.
UserRoomKinds == MessageKinds \ (EntityKinds \ {"task:created"})
CraftedIds == Projects \cup {"u1"}

NextUserRoom ==
    \/ \E s \in Senders, tok \in Users : Handshake(s, tok)
    \/ \E s \in Senders : Disconnect(s)
    \/ \E s \in Senders, kind \in UserRoomKinds, pid \in CraftedIds :
          OnMessage(s, kind, Data(pid, TRUE))
    \/ \E h \in inflight : DbAnswer(h, FALSE)
    \/ \E h \in inflight : Resume(h, FALSE)
    \/ EndTurn

InitUserRoom == InitS /\ members = Users \X Projects

SpecUserRoom == InitUserRoom /\ [][NextUserRoom /\ UNCHANGED <<wvars, pvars, cvars>>]_vars

\* Handler broadcasts and server-side emitToProject calls side by side.
NextExclude ==
    \/ \E s \in Senders, tok \in Users : Handshake(s, tok)
    \/ \E s \in Senders, kind \in {"join:project", "task:created", "typing:start"},
          p \in Projects : OnMessage(s, kind, Data(p, TRUE))
    \/ \E h \in inflight : DbAnswer(h, FALSE)
    \/ \E h \in inflight : Resume(h, FALSE)
    \/ \E p \in Projects, x \in Users : EmitToProject(p, x)
    \/ EndTurn

SpecExclude == InitS /\ [][NextExclude /\ UNCHANGED <<wvars, pvars, cvars>>]_vars

\* Typing indicators between joins and task messages, membership fixed.
TypingTraffic == {"join:project", "task:created"} \cup TypingKinds

NextTyping ==
    \/ \E s \in Senders, tok \in Users : Handshake(s, tok)
    \/ \E s \in Senders, kind \in TypingTraffic, p \in Projects :
          OnMessage(s, kind, Data(p, TRUE))
    \/ \E h \in inflight : DbAnswer(h, FALSE)
    \/ \E h \in inflight : Resume(h, FALSE)
    \/ EndTurn

SpecTyping == InitS /\ [][NextTyping /\ UNCHANGED <<wvars, pvars, cvars>>]_vars

\* The four verifier methods called directly, on every combination of
\* arguments, at verification time BaseTime.
NextVerifier ==
    \/ \E p \in VPayloads, sg \in VSignatures, k \in VSecrets :
          CallVerifyHMAC(p, sg, k)
    \/ \E p \in VPayloads, sg \in VSignatures, k \in VSecrets :
          CallVerifyGitHub(p, sg, k)
    \/ \E p \in VPayloads, sg \in VSignatures, k \in VSecrets :
          CallVerifyStripe(p, sg, k)
    \/ \E p \in VPayloads, sg \in VSignatures, k \in VSecrets :
          CallVerifyGeneric(p, sg, k)
    \/ VerifierReturn

SpecVerifier == InitV /\ [][NextVerifier /\ UNCHANGED <<wvars, svars, cvars>>]_vars

(***************************************************************************)
(*                  PROPERTIES OF THE WEBHOOK INGRESS                      *)
(***************************************************************************)

\* What the stages of #handleWebhook see of the request being answered.
WPayload == JSONParse(RawBody(wreq.body))
WParsed == WPayload # ParseError
WSecret == getSecret(config, wreq.source)
WSignature == extractSignature(wreq.headers, wreq.source)
WVerified ==
    verifySignature(wreq.source, RawBody(wreq.body), WSignature, WSecret, clock)
WPassedChecks ==
    WParsed /\ (config.requireSignature => WSecret # Absent /\ WVerified)
WEventType == extractEventType(wreq.headers, WPayload, wreq.source)
WAnswered(st) == Len(wres) = 1 /\ wres[1].status = st

\* C1: a request that passes parsing and the signature checks and whose event
\* type has no registered handler is answered 200 with success true, never 5xx.
C1_UnhandledIsSuccess ==
    ( /\ wreq # NoReq
      /\ WPassedChecks
      /\ WEventType # Threw
      /\ handlers[WEventType] = NoHandler )
    => (WAnswered(200) /\ wres[1].success)

\* C2: a handler is invoked only for a request whose raw body parsed and, with
\* signature enforcement on, for whose source a secret resolved and whose
\* signature the source's verifier accepted.
C2_HandlerOnlyAfterChecks ==
    wcalls # <<>> => WPassedChecks

C2_Witness ==
    /\ wcalls # <<>>
    /\ config.requireSignature
    /\ WSecret # Absent
    /\ WVerified

\* C9: when the registered handler throws, the sender gets a 500 whose body
\* does not carry the message of the thrown error.
C9_GenericFailure ==
    (wcalls # <<>> /\ wcalls[1].fn = "hThrow")
    => (WAnswered(500) /\ wres[1].message # HandlerErrorMessage)

\* C10: 200 with success and the event type when the handler completed, 400
\* when the body is not valid JSON (whatever its signature), 401 when
\* enforcement is on and the secret is unconfigured or the signature missing
\* or invalid, 500 when the handler failed.
C10_StatusByStage ==
    wreq # NoReq =>
      /\ Len(wres) = 1
      /\ ~IsJSONText(SentText(wreq)) => wres[1].status = 400
      /\ ( /\ IsJSONText(SentText(wreq))
           /\ config.requireSignature
           /\ (WSecret = Absent \/ WSignature = NoSig \/ ~WVerified) )
         => wres[1].status = 401
      /\ (wcalls # <<>> /\ wcalls[1].fn = "hOk")
         => ( /\ wres[1].status = 200
              /\ wres[1].success
              /\ wres[1].eventType = wcalls[1].eventType )
      /\ (wcalls # <<>> /\ wcalls[1].fn = "hThrow") => wres[1].status = 500

\* The same with the empty body left out (a sanity check of the other cases).
C10_ExceptEmptyBody ==
    (wreq # NoReq /\ wreq.body # [kind |-> "buffer", text |-> ""])
    => C10_StatusByStage

\* No secret is set anywhere for the source of the request: no per-source
\* config secret, no WEBHOOK_SECRET_<SOURCE>, no WEBHOOK_SECRET.
WNoSecretSet ==
    /\ wreq.source \in DOMAIN config.secrets => config.secrets[wreq.source] = Absent
    /\ config.envSource[wreq.source] = Absent
    /\ config.envGeneric = Absent

\* C11: with enforcement on, a parsed request for a source for which no secret
\* is set is answered 401 'Webhook secret not configured', not 'Invalid
\* webhook signature', and no verifier is called for it.
C11_SecretNotConfigured ==
    (wreq # NoReq /\ WParsed /\ config.requireSignature /\ WNoSecretSet)
    => /\ WAnswered(401)
       /\ wres[1].message = "Webhook secret not configured"
       /\ wverify = <<>>

\* The same for the sources the configuration names.
C11_ConfiguredSourcesOnly ==
    wreq.source \in ConfiguredSources => C11_SecretNotConfigured

\* The secret the documented precedence gives for the source of the request.
WExpectedSecret ==
    IF wreq.source \in DOMAIN config.secrets /\ config.secrets[wreq.source] # Absent
      THEN config.secrets[wreq.source]
    ELSE IF config.envSource[wreq.source] # Absent
      THEN config.envSource[wreq.source]
    ELSE config.envGeneric

\* C12: the verifier is called with the per-source config secret when set,
\* else WEBHOOK_SECRET_<SOURCE>, else WEBHOOK_SECRET, and the request passes
\* the signature stage exactly when its signature verifies under that secret.
C12_SecretPrecedence ==
    ( /\ wreq # NoReq /\ WParsed /\ config.requireSignature
      /\ WExpectedSecret # Absent )
    => /\ wverify = <<[source |-> wreq.source, secret |-> WExpectedSecret]>>
       /\ WAnswered(401)
            <=> ~verifySignature(wreq.source, RawBody(wreq.body), WSignature,
                                 WExpectedSecret, clock)

\* The same for the sources the configuration names.
C12_ConfiguredSourcesOnly ==
    wreq.source \in ConfiguredSources => C12_SecretPrecedence

\* C13: an accepted request whose event type T has a registered handler makes
\* exactly one invocation: of the handler registered for T, with the parsed
\* payload and a metadata object holding source, timestamp and ip.
C13_ExactlyTheHandler ==
    ( /\ wreq # NoReq
      /\ WPassedChecks
      /\ WEventType # Threw
      /\ handlers[WEventType] # NoHandler )
    => /\ Len(wcalls) = 1
       /\ wcalls[1].fn = handlers[WEventType]
       /\ wcalls[1].eventType = WEventType
       /\ wcalls[1].payload = WPayload
       /\ wcalls[1].metadata.source = wreq.source
       /\ wcalls[1].metadata.ip = wreq.ip
       /\ wcalls[1].metadata.timestamp # Absent

C13_Witness ==
    /\ Len(wcalls) = 1
    /\ wcalls[1].eventType = "task.created"
    /\ wcalls[1].fn = "hOk"
    /\ handlers["push"] = "hThrow"
    /\ wcalls[1].payload = ObjPayload(Absent, Absent, "task.created")
    /\ wcalls[1].metadata.source = "generic"
    /\ config.requireSignature

\* The event types a registry call names.
NamedBy(call) == { call.entries[i][1] : i \in 1..Len(call.entries) }

\* C14: a registration that returns leaves its handler as the one of its event
\* type (the last entry winning), a removal leaves none, no other event
\* type's handler changes, a dispatch runs the handler the map holds for the
\* type and only that one, and getRegisteredEventTypes returns exactly the
\* types that have a handler.
C14_LastRegistrationWins ==
    /\ []( (regOp.op \in {"registerHandler", "registerHandlers"} /\ ~regOp.threw)
           => \A i \in 1..Len(regOp.entries) :
                 handlers[regOp.entries[i][1]] = regOp.entries[i][2] )
    /\ []( regOp.op = "removeHandler"
           => \A e \in NamedBy(regOp) : handlers[e] = NoHandler )
    /\ []( regOp.op = "getRegisteredEventTypes"
           => regOp.returned = { e \in EventTypes : handlers[e] # NoHandler } )
    /\ []( wcalls # <<>>
           => Len(wcalls) = 1 /\ wcalls[1].fn = handlers[wcalls[1].eventType] )
    /\ [][ \A e \in EventTypes :
             handlers'[e] # handlers[e]
             => /\ regOp'.op \in {"registerHandler", "registerHandlers", "removeHandler"}
                /\ e \in NamedBy(regOp') ]_vars

C14_Witness ==
    /\ regOp.op = "registerHandlers"
    /\ ~regOp.threw
    /\ regOp.entries = << <<"push", "hThrow">>, <<"task.created", "hOk">> >>
    /\ handlers["push"] = "hThrow" /\ handlers["task.created"] = "hOk"

\* A request signed with the environment secret while the source has a config
\* secret is turned away; one signed with the config secret is let through.
C12_ConfigBeatsEnvironment ==
    /\ wreq # NoReq /\ WParsed /\ config.requireSignature
    /\ wreq.source = "github"
    /\ config.secrets["github"] = "k1" /\ config.envGeneric = "k2"
    /\ WSignature.fmt = "hex" /\ WSignature.msg = RawBody(wreq.body)
    /\ WSignature.key = "k2" <=> WAnswered(401)

(***************************************************************************)
(*                  PROPERTIES OF THE WEBHOOK VERIFIER                     *)
(***************************************************************************)

VStripeCall == vcall.fn = "verifyStripe"
VHmacCall == vcall.fn \in {"verifyHMAC", "verifyGitHub", "verifyGeneric"}

\* The call's signature is a Stripe one made with the call's secret over
\* "<timestamp>.<payload>".
VValidlySigned ==
    /\ VStripeCall
    /\ vcall.signature.fmt = "stripe"
    /\ vcall.secret \in Secrets
    /\ vcall.signature.key = vcall.secret
    /\ vcall.signature.msg = ToText(vcall.payload)

VAge == clock - vcall.signature.t

\* C15: verifyStripe on a validly signed payload rejects when the timestamp
\* is more than 300 seconds older than the clock (301: rejected) and accepts
\* up to 300 (299: accepted); a signature without t element is rejected.
C15_StripeReplayWindow ==
    /\ VValidlySigned =>
         /\ VAge = 301 => vret = "false"
         /\ VAge = 299 => vret = "true"
         /\ VAge > 300 => vret = "false"
         /\ VAge \in 0..300 => vret = "true"
    /\ (VStripeCall /\ vcall.signature.fmt = "stripe_no_t") => vret = "false"

C15_Witness ==
    /\ VValidlySigned
    /\ VAge = 300
    /\ vret = "true"

\* The digest the call provides is the one the verifier recomputes.
VDigestMatches ==
    \/ /\ VHmacCall
       /\ vcall.signature.fmt \in {"hex", "prefixed"}
       /\ vcall.signature.key = vcall.secret
       /\ vcall.signature.msg = vcall.payload
    \/ /\ VStripeCall
       /\ vcall.signature.fmt \in {"stripe", "stripe_nan"}
       /\ vcall.signature.key = vcall.secret
       /\ vcall.signature.msg = ToText(vcall.payload)

\* Missing or empty signature or secret, a malformed signature, a digest of
\* another length, no v1 element, an expired timestamp, a mismatch.
VFailure ==
    \/ vcall.signature.fmt \in {Absent, "empty", "garbage", "function",
                                 "stripe_no_v1", "stripe_bad_v1"}
    \/ vcall.secret \in {Absent, ""}
    \/ VStripeCall /\ vcall.signature.fmt = "stripe" /\ VAge > 300
    \/ ~VDigestMatches

VNoPayload == vcall.payload \in {Absent, ""}

\* C16: no call of the four verifier methods raises; a call with a missing
\* or empty signature or secret, a malformed signature, an expired timestamp
\* or a mismatch returns false, and so does a missing or empty payload in
\* verifyHMAC, verifyGitHub and verifyGeneric; true is returned only when
\* the provided digest equals the recomputed one.
C16_NeverRaises ==
    vcall # NoVerifierCall =>
      /\ vret \in {"true", "false"}
      /\ VFailure => vret = "false"
      /\ (VHmacCall /\ VNoPayload) => vret = "false"
      /\ vret = "true" => VDigestMatches

\* C16 as stated: a missing or empty payload gives false in all four.
C16_FalseOnEveryBadInput ==
    vcall # NoVerifierCall =>
      /\ vret \in {"true", "false"}
      /\ (VFailure \/ VNoPayload) => vret = "false"
      /\ vret = "true" => VDigestMatches

C16_Witness ==
    /\ vcall.fn = "verifyHMAC"
    /\ vcall.payload = "{}"
    /\ vcall.secret = "k1"
    /\ vcall.signature = GarbageSig
    /\ vret = "false"

(***************************************************************************)
(*                  PROPERTIES OF THE REALTIME LAYER                       *)
(***************************************************************************)

\* The channels of user u: authenticated as u and not yet closed.
ChannelsOf(u) == { s \in SocketIds : status[s] = "active" /\ sockUser[s] = u }
\* The channels joined to room project:p.
InProjectRoom(p) == { s \in Connected : ProjectRoom(p) \in rooms[s] }
\* The channels this turn's packets went to.
Receivers == { pk.to : pk \in sent }
\* The events that are fanned out to a project room.
FanOutEvents == EntityKinds \cup TypingKinds \cup {"srv", "user:joined", "user:left"}

\* C3: emitToUser(U, ..) delivers to exactly the registered channels of U and
\* returns true when U has one, false (delivering nothing) when U has none.
C3_EmitToUser ==
    lastOp.op = "emitToUser" =>
      /\ Receivers = ChannelsOf(lastOp.user)
      /\ lastOp.ok = (ChannelsOf(lastOp.user) # {})

C3_Witness ==
    /\ lastOp.op = "emitToUser"
    /\ lastOp.ok
    /\ Cardinality(ChannelsOf(lastOp.user)) >= 2
    /\ Receivers = ChannelsOf(lastOp.user)
    /\ Connected \ ChannelsOf(lastOp.user) # {}

\* C4: emitToProject(P, .., X) with an excluded user X delivers to no channel
\* of X and to every channel in room project:P that another user owns.
C4_EmitToProjectExcludes ==
    (lastOp.op = "emitToProject" /\ lastOp.user # Absent) =>
      Receivers = { s \in InProjectRoom(lastOp.project) : sockUser[s] # lastOp.user }

C4_Witness ==
    /\ lastOp.op = "emitToProject"
    /\ lastOp.user # Absent
    /\ Cardinality(InProjectRoom(lastOp.project) \cap ChannelsOf(lastOp.user)) >= 2
    /\ Receivers # {}
    /\ Receivers \cap ChannelsOf(lastOp.user) = {}

\* C5: a join:project for P by a channel whose user the lookup does not find
\* among the members of P sends an error to that channel only; a channel
\* enters room project:P only when a join of its own resumes on a lookup that
\* found its user a member, so that fan-out to project:P, which reaches room
\* members only, does not reach it before.
JoinDenied ==
    lastOp.op = "resume" /\ lastOp.kind = "join:project" /\ lastOp.note = "no"

C5_DeniedJoin ==
    /\ [](JoinDenied =>
            /\ sent \subseteq
                 { ErrorPacket(lastOp.socket, "You do not have access to this project") }
            /\ status[lastOp.socket] = "active" => sent # {})
    /\ [](\A pk \in sent :
            (pk.event \in FanOutEvents /\ pk.project \in Projects)
            => pk.to \in InProjectRoom(pk.project))
    /\ [][\A s \in SocketIds, p \in Projects :
            (ProjectRoom(p) \in rooms'[s] /\ ProjectRoom(p) \notin rooms[s])
            => \E h \in inflight \ inflight' :
                  /\ h.socket = s /\ h.kind = "join:project"
                  /\ h.project = p /\ h.found = "yes"]_vars
    /\ [][\A h \in inflight \ inflight' :
            ( /\ h.kind = "join:project" /\ h.found = "pending"
              /\ [h EXCEPT !.found = "yes"] \in inflight' )
            => <<sockUser[h.socket], h.project>> \in members]_vars

\* C5 as stated: after the denied join the channel is not in room project:P,
\* so that no fan-out reaches it until a later join of it succeeds.
C5_NotInRoomAfterDenial ==
    JoinDenied =>
      /\ Receivers \subseteq {lastOp.socket}
      /\ lastOp.socket \notin InProjectRoom(lastOp.project)

C5_Witness ==
    /\ JoinDenied
    /\ Receivers = {lastOp.socket}
    /\ lastOp.socket \notin InProjectRoom(lastOp.project)
    /\ InProjectRoom(lastOp.project) # {}

\* C6: when the task:created handler of channel A resumes on a lookup that
\* found A's user a member of P, every other channel in room project:P (B, of
\* another user) gets a task:created packet naming A's user, and A gets none.
TaskCreatedBroadcast ==
    lastOp.op = "resume" /\ lastOp.kind = "task:created" /\ lastOp.note = "yes"

C6_TaskCreatedEndToEnd ==
    TaskCreatedBroadcast =>
      /\ sent = { Packet(b, "task:created", lastOp.project, lastOp.user) :
                    b \in InProjectRoom(lastOp.project) \ {lastOp.socket} }
      /\ lastOp.socket \notin Receivers

C6_Witness ==
    /\ TaskCreatedBroadcast
    /\ lastOp.socket \in InProjectRoom(lastOp.project)
    /\ \E b \in InProjectRoom(lastOp.project) :
          /\ sockUser[b] # lastOp.user
          /\ Packet(b, "task:created", lastOp.project, lastOp.user) \in sent
    /\ {<<"u1", lastOp.project>>, <<"u2", lastOp.project>>} \subseteq members

\* C7: an entity-changed packet goes to room project:P only in the turn where
\* the handler of that message resumes on a lookup, made after the message
\* arrived, that found the sending user among the members of P.
C7_RecheckedBeforeBroadcast ==
    /\ [][\A pk \in sent' :
            pk.event \in EntityKinds
            => \E h \in inflight \ inflight' :
                  /\ h.kind = pk.event /\ h.project = pk.project
                  /\ h.found = "yes" /\ sockUser[h.socket] = pk.by]_vars
    /\ [][\A h \in inflight \ inflight' :
            ( /\ h.kind \in EntityKinds /\ h.found = "pending"
              /\ [h EXCEPT !.found = "yes"] \in inflight' )
            => <<sockUser[h.socket], h.project>> \in members]_vars

C7_Witness ==
    /\ lastOp.op = "resume"
    /\ lastOp.kind \in EntityKinds
    /\ lastOp.note = "no"
    /\ sent \subseteq { ErrorPacket(lastOp.socket, "Access denied") }
    /\ lastOp.socket \in InProjectRoom(lastOp.project)
    /\ InProjectRoom(lastOp.project) \ {lastOp.socket} # {}
    /\ <<lastOp.user, lastOp.project>> \notin members

\* The kinds whose handler reads fields of the message data.
FieldKinds == MessageKinds \ {"ping"}

MissingField ==
    lastOp.op = "message" /\ lastOp.kind \in FieldKinds /\ lastOp.note = "missing"

\* C17: a message lacking a required field gets an error packet sent to the
\* channel it came from, and nothing else is sent.
C17_ErrorOnMissingField ==
    MissingField =>
      /\ \E pk \in sent : pk.event = "error" /\ pk.to = lastOp.socket
      /\ \A pk \in sent : pk.event = "error" /\ pk.to = lastOp.socket

\* What does hold: nothing but an error to the sender is sent, and only
\* join:project and task:created send one.
C17_NothingElse ==
    MissingField =>
      /\ \A pk \in sent : pk.event = "error" /\ pk.to = lastOp.socket
      /\ sent # {} <=> lastOp.kind \in {"join:project", "task:created"}

\* A message or a resumed handler that ended in an error.
FailedMessage ==
    /\ lastOp.op \in {"message", "resume"}
    /\ lastOp.note \in {"missing", "threw", "no", "error"}

\* C18: no inbound message, and no handler resuming from its lookup, moves a
\* channel out of Active or changes the registry; a channel leaves Active
\* and the registry only in a disconnect of that channel.
C18_MessagesNeverClose ==
    /\ [][ lastOp'.op \in {"message", "resume"}
           => /\ status' = status
              /\ connectedUsers' = connectedUsers
              /\ socketToUser' = socketToUser
              /\ listening' = listening ]_vars
    /\ [][ \A s \in SocketIds :
             ( \/ status[s] = "active" /\ status'[s] # "active"
               \/ s \in DOMAIN socketToUser /\ s \notin DOMAIN socketToUser' )
             => lastOp'.op = "disconnect" /\ lastOp'.socket = s ]_vars

C18_Witness ==
    /\ FailedMessage
    /\ lastOp.op = "resume" /\ lastOp.note = "error"
    /\ status[lastOp.socket] = "active"
    /\ lastOp.socket \in MapGet(connectedUsers, lastOp.user)
    /\ MapGet(socketToUser, lastOp.socket) = lastOp.user

\* C19: a join:project whose membership lookup found the channel's user among
\* the members of P always runs the join; with the channel still open it ends
\* with the channel in room project:P, joined:project sent to the joiner, and
\* user:joined sent to exactly the other channels of the room, never to the
\* joiner.
JoinedTurn ==
    /\ lastOp.op = "resume"
    /\ lastOp.kind = "join:project"
    /\ lastOp.note = "yes"

C19_MemberJoin ==
    /\ []( (JoinedTurn /\ lastOp.socket \in Connected) =>
            /\ lastOp.ok
            /\ lastOp.socket \in InProjectRoom(lastOp.project)
            /\ sent = { Packet(lastOp.socket, "joined:project", lastOp.project, "-") }
                      \cup { Packet(t, "user:joined", lastOp.project, lastOp.user) :
                               t \in InProjectRoom(lastOp.project) \ {lastOp.socket} } )
    /\ [][ \A h \in inflight \ inflight' :
              (h.kind = "join:project" /\ h.found = "yes") =>
                 /\ JoinedTurn'
                 /\ lastOp'.socket = h.socket
                 /\ lastOp'.project = h.project ]_vars

C19_Witness ==
    /\ JoinedTurn
    /\ lastOp.socket \in Connected
    /\ \E t \in InProjectRoom(lastOp.project) \ {lastOp.socket} :
          Packet(t, "user:joined", lastOp.project, lastOp.user) \in sent
    /\ Packet(lastOp.socket, "joined:project", lastOp.project, "-") \in sent

\* C20: a leave:project naming project P is carried out whoever sends it, member
\* of P or not: the channel is out of room project:P, left:project goes to the
\* leaver and user:left to exactly the channels still in the room; fan-out
\* events reach room members only, and the channel is back in the room only
\* after a join of its own.
LeftTurn ==
    /\ lastOp.op = "message"
    /\ lastOp.kind = "leave:project"
    /\ lastOp.project \in Projects

C20_Leave ==
    /\ []( LeftTurn =>
            /\ lastOp.ok
            /\ lastOp.socket \notin InProjectRoom(lastOp.project)
            /\ sent = { Packet(lastOp.socket, "left:project", lastOp.project, "-") }
                      \cup { Packet(t, "user:left", lastOp.project, lastOp.user) :
                               t \in InProjectRoom(lastOp.project) } )
    /\ []( \A pk \in sent :
              pk.event \in FanOutEvents => pk.to \in InProjectRoom(pk.project) )
    /\ [][ \A s \in SocketIds, q \in Projects :
              ( ProjectRoom(q) \notin rooms[s] /\ ProjectRoom(q) \in rooms'[s] ) =>
                 /\ JoinedTurn'
                 /\ lastOp'.socket = s
                 /\ lastOp'.project = q ]_vars

C20_Witness ==
    /\ LeftTurn
    /\ <<lastOp.user, lastOp.project>> \notin members
    /\ Packet(lastOp.socket, "left:project", lastOp.project, "-") \in sent
    /\ \E t \in InProjectRoom(lastOp.project) :
          Packet(t, "user:left", lastOp.project, lastOp.user) \in sent

\* C21: the broadcast of a message received later on a channel is never issued
\* while the handler of an earlier message of the same channel, one that will
\* broadcast, is still suspended on its membership lookup.
WillBroadcast(h) ==
    /\ h.kind \in EntityKinds
    /\ h.found = "pending"
    /\ findOne(members, sockUser[h.socket], h.project)
    /\ InProjectRoom(h.project) \ {h.socket} # {}

C21_ReceiptOrder ==
    \A h \in inflight :
       WillBroadcast(h) =>
          ~( /\ lastOp.op = "message"
             /\ lastOp.socket = h.socket
             /\ lastOp.kind \in TypingKinds
             /\ \E pk \in sent : pk.event = lastOp.kind )

\* C30: a typing:start or typing:stop naming project P goes, with no lookup,
\* to exactly the channels in room project:P other than the sender, whether
\* or not the sender is a member of P or in the room.
TypingTurn ==
    /\ lastOp.op = "message"
    /\ lastOp.kind \in TypingKinds
    /\ lastOp.project \in Projects

C30_TypingBroadcast ==
    TypingTurn =>
       /\ lastOp.note = "done"
       /\ sent = { Packet(t, lastOp.kind, lastOp.project, lastOp.user) :
                     t \in InProjectRoom(lastOp.project) \ {lastOp.socket} }

C30_Witness ==
    /\ TypingTurn
    /\ <<lastOp.user, lastOp.project>> \notin members
    /\ lastOp.socket \notin InProjectRoom(lastOp.project)
    /\ sent # {}

\* C22: in the user-to-channels map no channel is under two users, every
\* registered channel is under the user it authenticated as, and a user has an
\* entry exactly when they have an open channel, the entry holding exactly
\* their open channels: the last removal drops it, an earlier one keeps it.
OpenChannels(u) == { s \in SocketIds : status[s] = "active" /\ sockUser[s] = u }

C22_RegistryShape ==
    /\ \A u, v \in DOMAIN connectedUsers :
          u # v => connectedUsers[u] \cap connectedUsers[v] = {}
    /\ \A s \in DOMAIN socketToUser :
          /\ socketToUser[s] = sockUser[s]
          /\ s \in MapGet(connectedUsers, sockUser[s])
    /\ \A u \in Users \cup {NoUser} :
          u \in DOMAIN connectedUsers <=> OpenChannels(u) # {}
    /\ \A u \in DOMAIN connectedUsers : connectedUsers[u] = OpenChannels(u)
    /\ DOMAIN socketToUser = Connected

C22_Witness ==
    /\ lastOp.op = "disconnect"
    /\ lastOp.user \in DOMAIN connectedUsers
    /\ \E u \in Users : u \notin DOMAIN connectedUsers /\ \E s \in SocketIds : sockUser[s] = u

\* C23: #handleDisconnection for a channel that is not registered, because it
\* never was or because it already was unregistered, ends normally and leaves
\* both registry maps as they were.
C23_UnregisterUnknown ==
    [][ lastOp'.op = "unregister" =>
          /\ lastOp'.ok
          /\ connectedUsers' = connectedUsers
          /\ socketToUser' = socketToUser ]_vars

C23_Witness ==
    /\ lastOp.op = "unregister"
    /\ lastOp.user \in DOMAIN connectedUsers
    /\ status[lastOp.socket] = "closed"

\* C25: getConnectedUsersCount() is the number of users with an open channel,
\* isUserConnected(U) says whether U has one, and getTotalConnections() is the
\* number of registered channels.
C25_Queries ==
    /\ getConnectedUsersCount =
          Cardinality({ u \in Users : OpenChannels(u) # {} })
    /\ \A u \in Users \cup {"ghost"} : isUserConnected(u) <=> OpenChannels(u) # {}
    /\ getTotalConnections = Cardinality(DOMAIN socketToUser)

C25_UserQueries ==
    /\ getConnectedUsersCount =
          Cardinality({ u \in Users : OpenChannels(u) # {} })
    /\ \A u \in Users \cup {"ghost"} : isUserConnected(u) <=> OpenChannels(u) # {}

C24_NoDispatchAfterClose ==
    /\ lastOp.op = "message" => status[lastOp.socket] = "active"
    /\ \A s \in SocketIds : status[s] = "closed" => s \notin listening

Healthy == Connected \ broken

WOwnSignature ==
    CASE wreq.source = "github" ->
           OrSig(wreq.headers.x_hub_signature_256, wreq.headers.x_hub_signature)
      [] wreq.source = "stripe" -> wreq.headers.stripe_signature
      [] OTHER -> OrSig(wreq.headers.x_signature, wreq.headers.signature)

C28_OwnHeadersOnly ==
    ( /\ wreq # NoReq
      /\ WParsed
      /\ wreq.source \in ConfiguredSources
      /\ config.requireSignature
      /\ WSecret # Absent
      /\ WOwnSignature = NoSig )
    => (WAnswered(401) /\ wcalls = << >>)

\* C29: classification never fails a request: every request that passed the
\* checks gets an event type, the first present of the fields its source
\* consults or else 'unknown', and is not answered with the 500 of an
\* unexpected error.
FieldOrAbsent(v) == IF WPayload.kind = "object" THEN v ELSE Absent

ClaimedEventType ==
    CASE wreq.source = "github" ->
           OrStr(OrStr(wreq.headers.x_github_event, FieldOrAbsent(WPayload.action)),
                 "unknown")
      [] wreq.source = "stripe" -> OrStr(FieldOrAbsent(WPayload.type), "unknown")
      [] OTHER ->
           OrStr(OrStr(OrStr(OrStr(wreq.headers.x_event_type,
                                   wreq.headers.x_webhook_event),
                             FieldOrAbsent(WPayload.event)),
                       FieldOrAbsent(WPayload.type)),
                 "unknown")

C29_EventTypeAlways ==
    (wreq # NoReq /\ WPassedChecks) =>
       /\ WEventType = ClaimedEventType
       /\ ~(WAnswered(500) /\ wres[1].message = "Internal server error")
       /\ \A i \in DOMAIN wcalls : wcalls[i].eventType = ClaimedEventType

\* The same for the bodies that are JSON objects.
C29_ObjectPayloads ==
    WPayload.kind = "object" => C29_EventTypeAlways

\* C31: a channel that leaves Active, by a transport disconnect or by the
\* shutdown of the server, is Closed and out of both registry maps in that
\* same step; once the server has shut down no channel is Active, both maps
\* are empty, and they stay so.
Unregistered(s) ==
    /\ s \notin DOMAIN socketToUser
    /\ \A u \in DOMAIN connectedUsers : s \notin connectedUsers[u]

C31_ClosedAndUnregistered ==
    /\ []( ~serving =>
            /\ Connected = {}
            /\ connectedUsers = << >>
            /\ socketToUser = << >> )
    /\ []( \A s \in SocketIds : status[s] = "closed" => Unregistered(s) )
    /\ [][ \A s \in SocketIds :
              (status[s] = "active" /\ status'[s] # "active") =>
                 /\ status'[s] = "closed"
                 /\ lastOp'.op \in {"disconnect", "shutdown"} ]_vars
    /\ [][ ~serving => ~serving' ]_vars

C31_Witness ==
    /\ lastOp.op = "shutdown"
    /\ lastOp.note = "sockets closed"
    /\ \E s, t \in SocketIds :
          /\ s # t
          /\ sockUser[s] = sockUser[t]
          /\ sockUser[s] # NoUser
    /\ inflight # {}

\* C32: a correctly signed request to the github source with header
\* X-GitHub-Event: push is dispatched to the handler registered under
\* 'github.push'.
C32_GithubPushDispatched ==
    ( /\ wreq # NoReq
      /\ wreq.source = "github"
      /\ wreq.headers.x_github_event = "push"
      /\ SentText(wreq) = "{\"action\":\"opened\"}"
      /\ wreq.headers.x_hub_signature_256 # NoHeaders.x_hub_signature_256
      /\ config.requireSignature
      /\ WParsed /\ WSecret # Absent /\ WVerified
      /\ handlers["github.push"] # NoHandler )
    => ( /\ Len(wcalls) = 1
         /\ wcalls[1].eventType = "github.push"
         /\ wcalls[1].fn = handlers["github.push"] )

\* C33: an accepted handshake registers the channel, then joins it to its
\* user room, then emits the connected acknowledgement with the channel id
\* and the user id, and only then attaches its listeners; the handshake turn
\* ends with all four done, and every channel that listens, and so every
\* channel a message is dispatched for, is registered.
RegisteredIn(v, s, u) ==
    /\ s \in DOMAIN v.socketToUser /\ v.socketToUser[s] = u
    /\ u \in DOMAIN v.connectedUsers /\ s \in v.connectedUsers[u]

C33_HandshakeOrder ==
    /\ [](\A s \in SocketIds, u \in Users :
            IsNextSocketId(s) =>
              LET steps == handleConnection(connectedUsers, socketToUser, s, u)
                  ack == { Packet(s, "connected", "-", u) }
              IN  /\ Len(steps) = 4
                  /\ \A i \in 1..4 : RegisteredIn(steps[i], s, u)
                  /\ UserRoom(u) \notin steps[1].rooms
                  /\ \A i \in 2..4 : UserRoom(u) \in steps[i].rooms
                  /\ \A i \in 1..2 : steps[i].sent = {}
                  /\ \A i \in 3..4 : steps[i].sent = ack
                  /\ \A i \in 1..3 : ~steps[i].listening
                  /\ steps[4].listening)
    /\ []((lastOp.op = "handshake" /\ lastOp.ok) =>
            /\ lastOp.socket \in listening
            /\ UserRoom(lastOp.user) \in rooms[lastOp.socket]
            /\ sent = { Packet(lastOp.socket, "connected", "-", lastOp.user) })
    /\ [](\A s \in listening :
            /\ s \in DOMAIN socketToUser /\ socketToUser[s] = sockUser[s]
            /\ sockUser[s] \in DOMAIN connectedUsers
            /\ s \in connectedUsers[sockUser[s]])
    /\ [](lastOp.op = "message" =>
            /\ lastOp.socket \in DOMAIN socketToUser
            /\ socketToUser[lastOp.socket] = lastOp.user)

C33_Witness ==
    /\ lastOp.op = "message"
    /\ lastOp.socket = SocketNames[2]
    /\ \E u \in Users : DOMAIN socketToUser = {SocketNames[2]}
                         /\ connectedUsers = (u :> {SocketNames[2]})

\* C34: the two registry maps agree in every state: the channel-to-user map
\* takes s to u exactly when s is in the set stored for u in the
\* user-to-channels map, and no user is stored with an empty set.
C34_MapsAgree ==
    /\ \A s \in SocketIds :
          \A u \in Users \cup {NoUser} \cup DOMAIN connectedUsers :
             (s \in DOMAIN socketToUser /\ socketToUser[s] = u)
             <=> (u \in DOMAIN connectedUsers /\ s \in connectedUsers[u])
    /\ \A s \in DOMAIN socketToUser : socketToUser[s] \in DOMAIN connectedUsers
    /\ \A u \in DOMAIN connectedUsers : connectedUsers[u] # {}

C34_Witness ==
    /\ lastOp.op = "disconnect"
    /\ lastOp.user \in DOMAIN connectedUsers
    /\ lastOp.socket \notin connectedUsers[lastOp.user]
    /\ DOMAIN socketToUser = connectedUsers[lastOp.user]

\* C35: from registration to disconnect a registered channel of user U is in
\* room user:U and in no other room named user:..., and no message turn, of
\* any kind and with any projectId, changes the user rooms of any channel.
UserRoomsOf(rs, s) == { r \in rs[s] : r[1] = "user" }

C35_OwnUserRoomOnly ==
    /\ [](\A s \in DOMAIN socketToUser :
            UserRoomsOf(rooms, s) = { UserRoom(socketToUser[s]) })
    /\ [][ lastOp'.op \in {"message", "resume"} =>
            \A s \in SocketIds : UserRoomsOf(rooms', s) = UserRoomsOf(rooms, s) ]_vars

C35_Witness ==
    /\ lastOp.op = "message"
    /\ lastOp.kind = "leave:project"
    /\ lastOp.project = lastOp.user
    /\ UserRoomsOf(rooms, lastOp.socket) = { UserRoom(lastOp.user) }
    /\ \E s \in SocketIds \ {lastOp.socket} :
          s \in DOMAIN socketToUser /\ socketToUser[s] # lastOp.user

\* C36: the broadcast of an entity-changed or typing message sent by channel
\* A of user U reaches every channel in room project:P except A, the other
\* channels of U included, while emitToProject(P, .., U) reaches the channels
\* in the room that are not U's.
HandlerBroadcast ==
    \/ lastOp.op = "resume" /\ lastOp.kind \in EntityKinds /\ lastOp.note = "yes"
    \/ lastOp.op = "message" /\ lastOp.kind \in TypingKinds /\ lastOp.note = "done"

C36_SenderChannelOnly ==
    /\ HandlerBroadcast =>
          /\ Receivers = InProjectRoom(lastOp.project) \ {lastOp.socket}
          /\ \A pk \in sent : pk.event = lastOp.kind
    /\ (lastOp.op = "emitToProject" /\ lastOp.user \in Users) =>
          Receivers = InProjectRoom(lastOp.project) \ ChannelsOf(lastOp.user)

C36_Witness ==
    /\ HandlerBroadcast
    /\ lastOp.socket \in InProjectRoom(lastOp.project)
    /\ \E b \in Receivers : sockUser[b] = lastOp.user

\* C37: a channel has no project room when it connects and enters room
\* project:P only in the turn where a join:project of its own for P resumes
\* on a lookup that found its user a member; a change of the membership
\* store changes no room; a channel leaves room project:P only by its own
\* leave:project for P or by disconnecting; and fan-out to project:P reaches
\* every channel in the room, whatever the membership store says by then.
C37_CheckedAtJoinOnly ==
    /\ [](lastOp.op = "handshake" =>
            \A p \in Projects : ProjectRoom(p) \notin rooms[lastOp.socket])
    /\ [][\A s \in SocketIds, p \in Projects :
            (ProjectRoom(p) \in rooms'[s] \ rooms[s]) =>
               /\ lastOp'.op = "resume" /\ lastOp'.kind = "join:project"
               /\ lastOp'.socket = s /\ lastOp'.project = p
               /\ lastOp'.note = "yes"]_vars
    /\ [][members' # members => rooms' = rooms]_vars
    /\ [][\A s \in SocketIds, p \in Projects :
            (ProjectRoom(p) \in rooms[s] \ rooms'[s]) =>
               /\ lastOp'.socket = s
               /\ \/ lastOp'.op = "disconnect"
                  \/ /\ lastOp'.op = "message" /\ lastOp'.kind = "leave:project"
                     /\ lastOp'.project = p]_vars
    /\ []((lastOp.op = "emitToProject" /\ lastOp.user = Absent) =>
            Receivers = InProjectRoom(lastOp.project))

C37_Witness ==
    /\ lastOp.op = "emitToProject"
    /\ lastOp.user = Absent
    /\ \E b \in Receivers : <<sockUser[b], lastOp.project>> \notin members
    /\ \E b \in Receivers : <<sockUser[b], lastOp.project>> \in members

\* C38: a leave:project for P from a channel that is not in room project:P,
\* its user a member of P or not, changes no room, sends left:project to
\* that channel and user:left naming its user to every channel in the room.
C38_LeaveWithoutJoin ==
    [][ ( /\ lastOp'.op = "message" /\ lastOp'.kind = "leave:project"
          /\ lastOp'.project \in Projects
          /\ ProjectRoom(lastOp'.project) \notin rooms[lastOp'.socket] ) =>
        ( /\ rooms' = rooms
          /\ lastOp'.ok
          /\ { pk \in sent' : pk.to = lastOp'.socket } =
               { Packet(lastOp'.socket, "left:project", lastOp'.project, "-") }
          /\ { pk \in sent' : pk.to # lastOp'.socket } =
               { Packet(t, "user:left", lastOp'.project, lastOp'.user) :
                   t \in { x \in Connected : ProjectRoom(lastOp'.project) \in rooms[x] } } )
      ]_vars

C38_Witness ==
    /\ LeftTurn
    /\ <<lastOp.user, lastOp.project>> \notin members
    /\ \A q \in Projects : ProjectRoom(q) \notin rooms[lastOp.socket]
    /\ inflight = {}
    /\ \E pk \in sent : pk.event = "user:left" /\ pk.by = lastOp.user
                         /\ sockUser[pk.to] # lastOp.user

\* C39: registerHandler with a handler that is no function throws and leaves
\* the map as it was; registerHandlers throws at the first entry that is no
\* function, with the entries before it registered and those from it on not.
FirstBadEntry(entries) ==
    IF \E i \in 1..Len(entries) : entries[i][2] = NotAFunction
      THEN CHOOSE i \in 1..Len(entries) :
             /\ entries[i][2] = NotAFunction
             /\ \A j \in 1..(i-1) : entries[j][2] # NotAFunction
      ELSE 0

C39_BulkNotAtomic ==
    /\ [][ ( /\ regOp'.op = "registerHandler"
              /\ regOp'.entries[1][2] = NotAFunction ) =>
            ( regOp'.threw /\ handlers' = handlers ) ]_vars
    /\ [][ ( /\ regOp'.op = "registerHandlers"
              /\ FirstBadEntry(regOp'.entries) > 0 ) =>
            LET bad == FirstBadEntry(regOp'.entries)
                before == { regOp'.entries[j][1] : j \in 1..(bad-1) }
            IN  /\ regOp'.threw
                /\ \A j \in 1..(bad-1) :
                      handlers'[regOp'.entries[j][1]] = regOp'.entries[j][2]
                /\ \A e \in DOMAIN handlers \ before :
                      handlers'[e] = handlers[e] ]_vars
    /\ [][ ( /\ regOp'.op \in {"registerHandler", "registerHandlers"}
              /\ FirstBadEntry(regOp'.entries) = 0 ) => ~regOp'.threw ]_vars

C39_Witness ==
    /\ regOp.op = "registerHandlers"
    /\ regOp.threw
    /\ regOp.entries = << <<"push", "hOk">>, <<"task.created", NotAFunction>> >>
    /\ handlers["push"] = "hOk"
    /\ handlers["task.created"] = "hThrow"

\* C40: every webhook request is answered exactly once, on every path: one
\* status among 200, 400, 401 and 500 with one body, success being true on
\* 200 only; outside a request nothing is sent.
C40_ExactlyOneResponse ==
    /\ wreq # NoReq =>
          /\ Len(wres) = 1
          /\ wres[1].status \in {200, 400, 401, 500}
          /\ wres[1].message # Absent
          /\ wres[1].success <=> wres[1].status = 200
          /\ wres[1].status = 200 => Len(wcalls) = 1
          /\ Len(wcalls) <= 1
    /\ wreq = NoReq => wres = <<>>

C40_Witness ==
    /\ wreq # NoReq
    /\ WPassedChecks
    /\ WEventType = Threw
    /\ wres = << Response(500, FALSE, "Internal server error", Absent) >>
    /\ wcalls = <<>>

\* C8: a channel whose handshake is rejected (no token, malformed or expired
\* token, payload without user id, unknown user) is closed at once and is
\* never in the registry, in a room, sent a packet, or listened to.
Rejected(s) == status[s] = "closed" /\ sockUser[s] = NoUser

C8_RejectedHandshake ==
    /\ (lastOp.op = "handshake" /\ lastOp.note \in BadTokens)
       => (~lastOp.ok /\ Rejected(lastOp.socket))
    /\ \A s \in SocketIds :
          Rejected(s) =>
            /\ s \notin DOMAIN socketToUser
            /\ \A u \in DOMAIN connectedUsers : s \notin connectedUsers[u]
            /\ rooms[s] = {}
            /\ s \notin listening
            /\ s \notin Receivers
            /\ \A h \in inflight : h.socket # s
            /\ lastOp.op \in {"message", "resume"} => lastOp.socket # s
    /\ \A s \in SocketIds : status[s] = "fresh" => s \notin DOMAIN socketToUser

C8_Witness ==
    /\ lastOp.op = "handshake"
    /\ lastOp.note \in BadTokens
    /\ Rejected(lastOp.socket)
    /\ Connected # {}
    /\ sent = {}

====
